---- MODULE Spec2Model ----
(***************************************************************************)
(* River reverse proxy: the rate limiter (bucket cache, tickets) and the   *)
(* request pipeline of a proxy service (request_filter, upstream_peer,     *)
(* upstream_request_filter, upstream_response_filter).                     *)
(*                                                                         *)
(* Two specifications share the module's variables:                        *)
(*   SpecRater  worker threads calling get_ticket / now_or_never on one    *)
(*              Multi rate limiter (proxy/rate_limiting/multi.rs);         *)
(*   Spec       requests driven through the phase callbacks of             *)
(*              RiverProxyService (proxy/mod.rs).                          *)
(* Time is counted in ticks; a bucket refills every RefillIntervalTicks    *)
(* ticks, counted from its creation.                                       *)
(***************************************************************************)
EXTENDS Integers, Sequences, FiniteSets, TLC

\* ------------------------------------------------------------------ bounds
RefillIntervalTicks == 2  \* refill_interval_millis, in ticks
MaxTime == 2              \* the clock stops advancing at MaxTime
MaxCalls == 3             \* get_ticket calls made on one limiter in a run

\* The (max_tokens_per_bucket, refill_qty) pairs a rule is configured with;
\* the last one asks for more refill than the bucket holds.
BucketCfgs == {<<1, 1>>, <<2, 1>>, <<2, 3>>}

\* The worker-thread counts (threads_per_service) a service is run with.
ThreadCfgs == {1, 2}

Min(a, b) == IF a < b THEN a ELSE b

\* ------------------------------------------------------- sessions and keys
NoAddr == [sock |-> "none", ip |-> "-"]
UnixAddr == [sock |-> "unix", ip |-> "-"]
Inet(ip) == [sock |-> "inet", ip |-> ip]
Ips == {"10.1.2.3", "8.8.8.8", "::ffff:8.8.8.8"}
RaterAddrs == {Inet("10.1.2.3"), Inet("8.8.8.8"), UnixAddr}
RaterPaths == {"/a", "/a/", "/b"}

\* A regular expression is represented by the set of paths it matches.
is_match(pattern, path) == path \in pattern
RaterPatterns == {{"/a", "/a/"}}

NoKey == [tag |-> "None", v |-> "-"]
\* A key that takes an IPv4-mapped IPv6 address for the IPv4 address.
SourceKey_Canonical(ip) ==
    [tag |-> "Source", v |-> IF ip = "::ffff:8.8.8.8" THEN "8.8.8.8" ELSE ip]

\* The keys: a variant and its payload; two keys are equal when both are.
SourceKey(ip) == [tag |-> "Source", v |-> ip]
UriKey(path) == [tag |-> "Uri", v |-> path]
Keys == {SourceKey(ip) : ip \in Ips} \cup {UriKey(p) : p \in RaterPaths}

\* MultiRaterInstance::get_key
get_key(kind, addr, path) ==
    IF kind.tag = "SourceIp"
    THEN IF addr.sock = "inet" THEN SourceKey(addr.ip) ELSE NoKey
    ELSE IF is_match(kind.pattern, path) THEN UriKey(path) ELSE NoKey

RaterKinds == {[tag |-> "SourceIp", pattern |-> {}]}
              \cup {[tag |-> "Uri", pattern |-> p] : p \in RaterPatterns}

\* ------------------------------------------------------------------ state
VARIABLES
    rcfg,       \* the Rater built by Rater::new: kind, max, refill, capacity, threads
    cache,      \* the bucket cache: key -> bucket id (0: not resident)
    buckets,    \* every bucket created, by id: [tokens, born, live]
    now,        \* the clock, in ticks
    wpc,        \* per worker: "idle" | "miss" | "ticket"
    wkey,       \* per worker: the key of the get_ticket call in progress
    wbucket,    \* per worker: the bucket its ticket references (0: none)
    calls,      \* get_ticket calls made so far
    approved,   \* history: per key, tickets Approved so far
    created,    \* history: per key, buckets created so far
    firstBorn,  \* history: per key, the tick its first bucket was created (-1: never)
    evictions,  \* history: keys evicted from the cache so far
    issued,     \* history: the <<key, bucket>> pairs of the tickets returned
    approvedOff,\* history: per key, approvals drawn from a bucket that was not resident
    persisted,  \* history: per key, buckets that became resident so far
    winStart,   \* history: per key, the tick of the last approval that found the bucket full
    winCount    \* history: per key, approvals since winStart (that one included)

rvars == <<rcfg, cache, buckets, now, wpc, wkey, wbucket, calls,
           approved, created, firstBorn, evictions, issued, approvedOff, persisted,
           winStart, winCount>>

VARIABLES
    svc,        \* the proxy service built by from_basic_conf (ok = FALSE: none was built)
    reqs,       \* per request: its position in the pipeline, its session and context
    pcache,     \* per limiter of the service: key -> bucket id (0: not resident)
    pbuckets,   \* the buckets of the service's limiters, by id: [tokens, born, live, rule]
    lb          \* the load balancer: its round-robin counter and, as history, the
                \* backends it returned so far

pvars == <<svc, reqs, pcache, pbuckets, lb>>

VARIABLE
    single      \* a Single limiter (SingleInstance) with the tickets it issued

VARIABLES
    msg,        \* a request or response header with the modifiers applied to it
    loader,     \* a configuration document while it is being loaded
    files       \* a file-server service and its requests

aux == <<msg, loader, files>>

vars == <<rvars, pvars, single, aux>>

Workers == UNION {1..n : n \in ThreadCfgs}

\* Rater::new: the stored refill quantity is clamped to max_tokens_per_bucket.
RaterNew(kind, maxTokens, refillCfg, maxBuckets, threads) ==
    [kind |-> kind,
     max_tokens_per_bucket |-> maxTokens,
     refill_qty |-> Min(refillCfg, maxTokens),
     max_buckets |-> maxBuckets,
     threads |-> threads]

\* A bucket that starts empty.
new_rate_limiter_Empty(cfg, t) == [tokens |-> 0, born |-> t, live |-> TRUE]

\* Rater::new_rate_limiter: initial = max = max_tokens_per_bucket.
new_rate_limiter(cfg, t) ==
    [tokens |-> cfg.max_tokens_per_bucket, born |-> t, live |-> TRUE]

\* A lookup that ignores the key: any resident bucket is a hit.
CacheGet_AnyKey(c, key) ==
    IF \E k \in Keys : c[k] # 0 THEN c[CHOOSE k \in Keys : c[k] # 0] ELSE 0

\* reader.get(&key)
CacheGet(c, key) == c[key]

Resident(c) == {k \in Keys : c[k] # 0}

InitRater ==
    /\ rcfg \in {RaterNew(k, mr[1], mr[2], mb, th) :
                    k \in RaterKinds, mr \in BucketCfgs,
                    mb \in {1, Cardinality(Keys)}, th \in ThreadCfgs}
    /\ cache = [k \in Keys |-> 0]
    /\ buckets = <<>>
    /\ now = 0
    /\ wpc = [w \in Workers |-> "idle"]
    /\ wkey = [w \in Workers |-> NoKey]
    /\ wbucket = [w \in Workers |-> 0]
    /\ calls = 0
    /\ approved = [k \in Keys |-> 0]
    /\ created = [k \in Keys |-> 0]
    /\ firstBorn = [k \in Keys |-> -1]
    /\ evictions = 0
    /\ issued = {}
    /\ approvedOff = [k \in Keys |-> 0]
    /\ persisted = [k \in Keys |-> 0]
    /\ winStart = [k \in Keys |-> 0]
    /\ winCount = [k \in Keys |-> 0]
    /\ svc = [ok |-> FALSE]
    /\ reqs = <<>>
    /\ pcache = <<>>
    /\ pbuckets = <<>>
    /\ lb = [next |-> 0, picks |-> <<>>]
    /\ single = <<>>
    /\ msg = <<>> /\ loader = <<>> /\ files = <<>>

ActiveWorkers == 1..rcfg.threads

\* Who still references bucket b once worker w has let go of it: the cache or
\* another worker's ticket (the bucket is an Arc; it lives as long as a holder).
Held(c, wb, b) == (\E k \in Keys : c[k] = b) \/ (\E w \in Workers : wb[w] = b)

Drop(bs, c, wb) ==
    [i \in 1..Len(bs) |->
        IF Held(c, wb, i) THEN bs[i] ELSE [bs[i] EXCEPT !.tokens = 0, !.live = FALSE]]

\* MultiRaterInstance::get_ticket, up to the cache read of Rater::get_ticket:
\* no key -> None; a hit returns a ticket on the resident bucket; a miss goes
\* on to create a bucket (GetTicketInsert).
GetTicketRead(w, addr, path) ==
    LET key == get_key(rcfg.kind, addr, path) IN
    /\ wpc[w] = "idle"
    /\ calls < MaxCalls
    /\ calls' = calls + 1
    /\ IF key = NoKey
       THEN UNCHANGED <<wpc, wkey, wbucket, issued>>
       ELSE IF CacheGet(cache, key) # 0
       THEN /\ wpc' = [wpc EXCEPT ![w] = "ticket"]
            /\ wkey' = [wkey EXCEPT ![w] = key]
            /\ wbucket' = [wbucket EXCEPT ![w] = CacheGet(cache, key)]
            /\ issued' = issued \cup {[key |-> key, bucket |-> CacheGet(cache, key), hit |-> TRUE]}
       ELSE /\ wpc' = [wpc EXCEPT ![w] = "miss"]
            /\ wkey' = [wkey EXCEPT ![w] = key]
            /\ UNCHANGED <<wbucket, issued>>
    /\ UNCHANGED <<rcfg, cache, buckets, now, approved, created, firstBorn, evictions,
                   approvedOff, persisted, winStart, winCount, pvars, single, aux>>

\* An insert that overwrites the resident bucket of the key.
CacheInsert_Overwrite(c, key, b, victim) ==
    IF victim = NoKey THEN [c EXCEPT ![key] = b]
    ELSE [c EXCEPT ![key] = b, ![victim] = 0]

\* reader.insert(key, new_limiter) and reader.finish(): the bucket becomes
\* resident unless a racing insert made the key resident first, in which case
\* it is lost to the cache. A full cache gives up another key for it.
CacheInsert(c, key, b, victim) ==
    IF c[key] # 0 THEN c
    ELSE IF victim = NoKey THEN [c EXCEPT ![key] = b]
    ELSE [c EXCEPT ![key] = b, ![victim] = 0]

\* A cache that grows instead of evicting.
Victims_None(c, key) == {NoKey}

\* The keys a full cache may give up for a new one (NoKey: none is given up).
Victims(c, key) ==
    IF c[key] = 0 /\ Cardinality(Resident(c)) >= rcfg.max_buckets
    THEN Resident(c) ELSE {NoKey}

\* Rater::get_ticket, the miss branch.
GetTicketInsert(w) ==
    LET key == wkey[w]
        b == Len(buckets) + 1 IN
    /\ wpc[w] = "miss"
    /\ \E victim \in Victims(cache, key) :
         /\ cache' = CacheInsert(cache, key, b, victim)
         /\ evictions' = IF victim = NoKey THEN evictions ELSE evictions + 1
         /\ wbucket' = [wbucket EXCEPT ![w] = b]
         /\ buckets' = Drop(Append(buckets, new_rate_limiter(rcfg, now)), cache', wbucket')
    /\ wpc' = [wpc EXCEPT ![w] = "ticket"]
    /\ issued' = issued \cup {[key |-> key, bucket |-> b, hit |-> FALSE]}
    /\ created' = [created EXCEPT ![key] = @ + 1]
    /\ firstBorn' = [firstBorn EXCEPT ![key] = IF @ = -1 THEN now ELSE @]
    /\ persisted' = [persisted EXCEPT ![key] = IF cache'[key] = b THEN @ + 1 ELSE @]
    /\ UNCHANGED <<rcfg, now, wkey, calls, approved, approvedOff, winStart, winCount, pvars, single, aux>>

\* An acquisition that leaves the last token in the bucket.
try_acquire_KeepOne(bucket) == bucket.tokens >= 2

\* RateLimiter::try_acquire(1)
try_acquire(bucket) == bucket.tokens >= 1

\* Ticket::now_or_never: consumes the ticket.
NowOrNever(w) ==
    LET b == wbucket[w]
        key == wkey[w]
        ok == try_acquire(buckets[b])
        full == buckets[b].tokens = rcfg.max_tokens_per_bucket IN
    /\ wpc[w] = "ticket"
    /\ wpc' = [wpc EXCEPT ![w] = "idle"]
    /\ wbucket' = [wbucket EXCEPT ![w] = 0]
    /\ wkey' = [wkey EXCEPT ![w] = NoKey]
    /\ buckets' = Drop(IF ok THEN [buckets EXCEPT ![b].tokens = @ - 1] ELSE buckets,
                       cache, wbucket')
    /\ approved' = [approved EXCEPT ![key] = IF ok THEN @ + 1 ELSE @]
    /\ approvedOff' = [approvedOff EXCEPT ![key] = IF ok /\ cache[key] # b THEN @ + 1 ELSE @]
    /\ winStart' = [winStart EXCEPT ![key] = IF ok /\ full THEN now ELSE @]
    /\ winCount' = [winCount EXCEPT ![key] = IF ~ok THEN @ ELSE IF full THEN 1 ELSE @ + 1]
    /\ UNCHANGED <<rcfg, cache, now, calls, created, firstBorn, evictions, issued, persisted,
                   pvars, single, aux>>

\* A refill that comes with every tick, whatever the interval.
Refill_EveryTick(cfg, bucket, t) ==
    IF bucket.live /\ t > bucket.born
    THEN [bucket EXCEPT !.tokens = Min(cfg.max_tokens_per_bucket, @ + cfg.refill_qty)]
    ELSE bucket

\* A refill that adds refill_qty whatever the bucket already holds.
Refill_Uncapped(cfg, bucket, t) ==
    IF bucket.live /\ t > bucket.born /\ (t - bucket.born) % RefillIntervalTicks = 0
    THEN [bucket EXCEPT !.tokens = @ + cfg.refill_qty]
    ELSE bucket

\* One bucket after the clock reached t: refill_qty more tokens every
\* RefillIntervalTicks since its creation, never above max_tokens_per_bucket.
Refill(cfg, bucket, t) ==
    IF bucket.live /\ t > bucket.born /\ (t - bucket.born) % RefillIntervalTicks = 0
    THEN [bucket EXCEPT !.tokens = Min(cfg.max_tokens_per_bucket, @ + cfg.refill_qty)]
    ELSE bucket

Tick ==
    /\ now < MaxTime
    /\ now' = now + 1
    /\ buckets' = [i \in 1..Len(buckets) |-> Refill(rcfg, buckets[i], now + 1)]
    /\ UNCHANGED <<rcfg, cache, wpc, wkey, wbucket, calls, approved, created, firstBorn,
                   evictions, issued, approvedOff, persisted, winStart, winCount, pvars, single, aux>>

NextRater ==
    \/ \E w \in ActiveWorkers, addr \in RaterAddrs, path \in RaterPaths :
          GetTicketRead(w, addr, path)
    \/ \E w \in ActiveWorkers : GetTicketInsert(w)
    \/ \E w \in ActiveWorkers : NowOrNever(w)
    \/ Tick

SpecRater == InitRater /\ [][NextRater]_vars

\* ------------------------------------------------- the limiter's claims
\* The allowance of a bucket over a window of T ticks: M + floor(T/I)*R.
Allowance(cfg, T) ==
    cfg.max_tokens_per_bucket + (T \div RefillIntervalTicks) * cfg.refill_qty

C9_RaceBound ==
    evictions = 0 =>
        /\ \A k \in Keys :
              /\ persisted[k] <= 1
              /\ (created[k] >= 1 => persisted[k] = 1)
              /\ created[k] <= rcfg.threads
              /\ approvedOff[k] <= rcfg.threads - 1
        /\ \A t \in issued : t.hit => t.bucket = cache[t.key]

\* C9's case: two workers missed the same key, two buckets were created, one
\* is resident and the lost one has granted its token.
C9_Witness ==
    \E k \in Keys :
        /\ evictions = 0 /\ rcfg.threads = 2
        /\ created[k] = 2 /\ persisted[k] = 1 /\ approvedOff[k] = 1
        /\ \E t \in issued : t.key = k /\ t.hit

\* C10: under a single writer with no eviction, tickets for equal keys
\* reference one and the same bucket (one miss creates it, later calls hit
\* it), tickets for different keys reference different buckets, and the
\* tokens of a key's bucket are never reduced by approvals for other keys.
C10_SingleWriterBuckets ==
    (rcfg.threads = 1 /\ evictions = 0) =>
        /\ \A t1, t2 \in issued : (t1.key = t2.key) <=> (t1.bucket = t2.bucket)
        /\ \A k \in Keys : created[k] <= 1
        /\ \A k \in Resident(cache) :
              buckets[cache[k]].tokens >= rcfg.max_tokens_per_bucket - approved[k]

\* C10's case: one key was missed, approved and then hit again, and another
\* key's bucket is still full.
C10_Witness ==
    /\ rcfg.threads = 1 /\ evictions = 0
    /\ \E t1, t2 \in issued :
          /\ t1.key # t2.key /\ t1.hit /\ approved[t1.key] >= 1
          /\ cache[t2.key] # 0
          /\ buckets[cache[t2.key]].tokens = rcfg.max_tokens_per_bucket

C12_FreshBucketAfterEviction ==
    [][ /\ \A k \in Keys : (cache[k] = 0 /\ cache'[k] # 0) =>
              /\ cache'[k] = Len(buckets) + 1
              /\ buckets'[cache'[k]].tokens = rcfg.max_tokens_per_bucket
              /\ buckets'[cache'[k]].born = now
        /\ \A w \in Workers : (wpc[w] = "ticket" /\ wpc'[w] = "ticket") =>
              /\ wbucket'[w] = wbucket[w]
              /\ buckets'[wbucket[w]].live
              /\ (cache[wkey[w]] = wbucket[w] /\ cache'[wkey[w]] # wbucket[w]) =>
                    buckets'[wbucket[w]].tokens = buckets[wbucket[w]].tokens
      ]_vars

\* C12's case: under a single writer a key was evicted and then given a
\* second, full bucket, and its approvals exceed M + floor(T/I)*R.
C12_Witness ==
    \E k \in Keys :
        /\ rcfg.threads = 1 /\ evictions >= 1 /\ created[k] = 2
        /\ approved[k] > Allowance(rcfg, now - firstBorn[k])

\* ======================================================================
\* The Single limiter (proxy/rate_limiting/single.rs)
\* ======================================================================
\* The patterns a Single limiter is configured with.
SinglePatterns == RaterPatterns \cup {{"/b"}}

\* SingleInstance::new: one bucket, built once: initial = max =
\* max_tokens_per_bucket, refill = refill_qty as configured.
SingleInstance_new(maxTokens, refillQty, pattern, t) ==
    [kind |-> [tag |-> "UriGroup", pattern |-> pattern],
     config |-> [max_tokens_per_bucket |-> maxTokens, refill_qty |-> refillQty],
     limiter |-> 1,
     limiters |-> <<[tokens |-> maxTokens, born |-> t, live |-> TRUE]>>,
     tickets |-> <<>>,
     log |-> {},
     approved |-> 0,
     declined |-> 0,
     calls |-> 0]

\* A limiter that hands a ticket to every request.
SingleInstance_get_ticket_Always(inst, path) == [some |-> TRUE, limiter |-> inst.limiter]

\* SingleInstance::get_ticket: Some(Ticket { limiter: self.limiter.clone() })
\* when the pattern matches the URI path, None otherwise.
SingleInstance_get_ticket(inst, path) ==
    IF is_match(inst.kind.pattern, path)
    THEN [some |-> TRUE, limiter |-> inst.limiter]
    ELSE [some |-> FALSE, limiter |-> 0]

InitSingle ==
    /\ single \in {SingleInstance_new(mr[1], mr[2], p, 0) :
                      mr \in BucketCfgs, p \in SinglePatterns}
    /\ now = 0
    /\ rcfg = RaterNew([tag |-> "SourceIp", pattern |-> {}], 1, 1, 1, 1)
    /\ cache = [k \in Keys |-> 0]
    /\ buckets = <<>>
    /\ wpc = [w \in Workers |-> "idle"]
    /\ wkey = [w \in Workers |-> NoKey]
    /\ wbucket = [w \in Workers |-> 0]
    /\ calls = 0
    /\ approved = [k \in Keys |-> 0]
    /\ created = [k \in Keys |-> 0]
    /\ firstBorn = [k \in Keys |-> -1]
    /\ evictions = 0
    /\ issued = {}
    /\ approvedOff = [k \in Keys |-> 0]
    /\ persisted = [k \in Keys |-> 0]
    /\ winStart = [k \in Keys |-> 0]
    /\ winCount = [k \in Keys |-> 0]
    /\ svc = [ok |-> FALSE]
    /\ reqs = <<>>
    /\ pcache = <<>>
    /\ pbuckets = <<>>
    /\ lb = [next |-> 0, picks |-> <<>>]
    /\ msg = <<>> /\ loader = <<>> /\ files = <<>>

SingleOthersUnchanged ==
    UNCHANGED <<rcfg, cache, buckets, wpc, wkey, wbucket, calls, approved, created,
                firstBorn, evictions, issued, approvedOff, persisted, winStart, winCount,
                pvars, aux>>

\* A request with URI path `path` asks the limiter for a ticket.
SingleGetTicket(path) ==
    LET t == SingleInstance_get_ticket(single, path) IN
    /\ single.calls < MaxCalls
    /\ single' = [single EXCEPT
                     !.calls = @ + 1,
                     !.log = @ \cup {[path |-> path, some |-> t.some, limiter |-> t.limiter]},
                     !.tickets = IF t.some
                                 THEN Append(@, [path |-> path, limiter |-> t.limiter])
                                 ELSE @]
    /\ UNCHANGED now
    /\ SingleOthersUnchanged

\* Ticket::now_or_never on the i-th outstanding ticket.
SingleNowOrNever(i) ==
    LET t == single.tickets[i]
        ok == try_acquire(single.limiters[t.limiter]) IN
    /\ i \in 1..Len(single.tickets)
    /\ single' = [single EXCEPT
                     !.tickets = SubSeq(@, 1, i - 1) \o SubSeq(@, i + 1, Len(@)),
                     !.limiters[t.limiter].tokens = IF ok THEN @ - 1 ELSE @,
                     !.approved = IF ok THEN @ + 1 ELSE @,
                     !.declined = IF ok THEN @ ELSE @ + 1]
    /\ UNCHANGED now
    /\ SingleOthersUnchanged

\* Time passes: the bucket refills.
SingleTick ==
    /\ now < MaxTime
    /\ now' = now + 1
    /\ single' = [single EXCEPT
                     !.limiters = [i \in 1..Len(@) |-> Refill(single.config, @[i], now + 1)]]
    /\ SingleOthersUnchanged

NextSingle ==
    \/ \E path \in RaterPaths : SingleGetTicket(path)
    \/ \E i \in 1..Len(single.tickets) : SingleNowOrNever(i)
    \/ SingleTick

SpecSingle == InitSingle /\ [][NextSingle]_vars

\* C13: a Single limiter returns a ticket exactly for the requests whose URI
\* path matches its pattern; every ticket draws on the instance's one bucket,
\* so the approvals of all matching paths together stay within that bucket's
\* allowance M + floor(T/I)*R.
C13_SingleSharedBucket ==
    /\ \A e \in single.log : e.some <=> is_match(single.kind.pattern, e.path)
    /\ \A e \in single.log : e.some => e.limiter = single.limiter
    /\ \A i \in 1..Len(single.tickets) : single.tickets[i].limiter = single.limiter
    /\ Len(single.limiters) = 1
    /\ single.approved <= Allowance(single.config, now)
    /\ single.limiters[1].tokens <= single.config.max_tokens_per_bucket

\* C13's case: tickets were returned for two different matching paths and
\* refused for a third, and the second matching path was declined because the
\* first had used the shared budget.
C13_Witness ==
    /\ \E e1, e2, e3 \in single.log :
          e1.some /\ e2.some /\ e1.path # e2.path /\ ~e3.some
    /\ single.approved >= 1 /\ single.declined >= 1


\* ======================================================================
\* The proxy service: construction (proxy/mod.rs, from_basic_conf)
\* ======================================================================

\* ------------------------------------------------- Path Control settings
\* A settings mapping is a function from key strings to values.
HasKey(map, key) == key \in DOMAIN map
RemoveKey(map, key) == [k \in (DOMAIN map) \ {key} |-> map[k]]

\* extract_val: the value of `key` and the mapping without it, or an error.
extract_val(key, map) ==
    IF HasKey(map, key)
    THEN [ok |-> TRUE, val |-> map[key], rest |-> RemoveKey(map, key)]
    ELSE [ok |-> FALSE, val |-> "-", rest |-> map]

\* ensure_empty: an error when a key is left over.
ensure_empty(map) == DOMAIN map = {}

BuildErr == [ok |-> FALSE, kind |-> "-"]

\* CidrRangeFilter::from_settings: "addrs" is a sequence of ranges; a range
\* that does not parse (here: "bad") is rejected. Left-over keys are not looked at.
CidrRangeFilter_from_settings(settings) ==
    LET mat == extract_val("addrs", settings) IN
    IF ~mat.ok THEN BuildErr
    ELSE IF \E i \in 1..Len(mat.val) : mat.val[i] = "bad" THEN BuildErr
    ELSE [ok |-> TRUE, kind |-> "block-cidr-range", blocks |-> mat.val]

\* RemoveHeaderKeyRegex::from_settings (request and response side alike).
RemoveHeaderKeyRegex_from_settings(settings) ==
    LET mat == extract_val("pattern", settings) IN
    IF ~mat.ok THEN BuildErr
    ELSE IF mat.val = "bad" THEN BuildErr
    ELSE IF ~ensure_empty(mat.rest) THEN BuildErr
    ELSE [ok |-> TRUE, kind |-> "remove-header-key-regex", regex |-> mat.val]

\* UpsertHeader::from_settings (request and response side alike).
UpsertHeader_from_settings(settings) ==
    LET key == extract_val("key", settings)
        value == extract_val("value", key.rest) IN
    IF ~key.ok THEN BuildErr
    ELSE IF ~value.ok THEN BuildErr
    ELSE [ok |-> TRUE, kind |-> "upsert-header", key |-> key.val, value |-> value.val]

\* The kinds each list of Modifiers::from_conf matches on.
BuildRequestFilter(kind, settings) ==
    IF kind = "block-cidr-range" THEN CidrRangeFilter_from_settings(settings)
    ELSE BuildErr

BuildRequestModifier(kind, settings) ==
    IF kind = "remove-header-key-regex" THEN RemoveHeaderKeyRegex_from_settings(settings)
    ELSE IF kind = "upsert-header" THEN UpsertHeader_from_settings(settings)
    ELSE BuildErr

BuildResponseModifier(kind, settings) ==
    IF kind = "remove-header-key-regex" THEN RemoveHeaderKeyRegex_from_settings(settings)
    ELSE IF kind = "upsert-header" THEN UpsertHeader_from_settings(settings)
    ELSE BuildErr

\* A build that pushes each new modifier to the front of the list.
RECURSIVE BuildList_Front(_, _, _, _)
BuildList_Front(list, i, built, side) ==
    IF i > Len(list) THEN [ok |-> TRUE, mods |-> built]
    ELSE LET kind == extract_val("kind", list[i])
             f == IF ~kind.ok THEN BuildErr
                  ELSE IF side = "request_filters"
                       THEN BuildRequestFilter(kind.val, kind.rest)
                  ELSE IF side = "upstream_request_filters"
                       THEN BuildRequestModifier(kind.val, kind.rest)
                  ELSE BuildResponseModifier(kind.val, kind.rest)
         IN IF ~f.ok THEN [ok |-> FALSE, mods |-> <<>>]
            ELSE BuildList_Front(list, i + 1, <<f>> \o built, side)

\* One of from_conf's loops: for each mapping, in order, take "kind" out,
\* build the modifier and push it. The result is the list built, or an error
\* (an unknown kind; a missing "kind" or a failed from_settings aborts).
RECURSIVE BuildList(_, _, _, _)
BuildList(list, i, built, side) ==
    IF i > Len(list) THEN [ok |-> TRUE, mods |-> built]
    ELSE LET kind == extract_val("kind", list[i])
             f == IF ~kind.ok THEN BuildErr
                  ELSE IF side = "request_filters"
                       THEN BuildRequestFilter(kind.val, kind.rest)
                  ELSE IF side = "upstream_request_filters"
                       THEN BuildRequestModifier(kind.val, kind.rest)
                  ELSE BuildResponseModifier(kind.val, kind.rest)
         IN IF ~f.ok THEN [ok |-> FALSE, mods |-> <<>>]
            ELSE BuildList(list, i + 1, Append(built, f), side)

\* Modifiers::from_conf
from_conf(path_control) ==
    LET rf == BuildList(path_control.request_filters, 1, <<>>, "request_filters")
        urq == BuildList(path_control.upstream_request_filters, 1, <<>>,
                         "upstream_request_filters")
        urs == BuildList(path_control.upstream_response_filters, 1, <<>>,
                         "upstream_response_filters")
    IN IF rf.ok /\ urq.ok /\ urs.ok
       THEN [ok |-> TRUE, request_filters |-> rf.mods,
             upstream_request_filters |-> urq.mods,
             upstream_response_filters |-> urs.mods]
       ELSE [ok |-> FALSE, request_filters |-> <<>>,
             upstream_request_filters |-> <<>>, upstream_response_filters |-> <<>>]


\* ------------------------------------------------------ rate-limit rules
\* RaterInstance::get_key (proxy/rate_limiting.rs): the source-ip rule unwraps
\* the client address, so a session without one aborts the task ("panic").
PanicKey == [tag |-> "Panic", v |-> "-"]

RaterInstance_get_key(kind, addr, path) ==
    IF kind.tag = "SourceIp"
    THEN IF addr.sock = "none" THEN PanicKey
         ELSE IF addr.sock = "inet" THEN SourceKey(addr.ip) ELSE NoKey
    ELSE IF kind.tag = "DestIp" THEN NoKey
    ELSE IF is_match(kind.pattern, path) THEN UriKey(path) ELSE NoKey

RuleSourceIp == [kind |-> [tag |-> "SourceIp", pattern |-> {}], max |-> 1, refill |-> 1]
RuleDestIp == [kind |-> [tag |-> "DestIp", pattern |-> {}], max |-> 1, refill |-> 1]
RuleUriA == [kind |-> [tag |-> "Uri", pattern |-> {"/a"}], max |-> 2, refill |-> 1]

\* from_basic_conf's filter_map over the rules: a DestIp rule builds no limiter.
RECURSIVE request_filter_stage(_)
request_filter_stage(rules) ==
    IF rules = <<>> THEN <<>>
    ELSE LET cfg == Head(rules)
             rest == request_filter_stage(Tail(rules))
         IN IF cfg.kind.tag = "DestIp" THEN rest
            ELSE <<RaterNew(cfg.kind, cfg.max, cfg.refill, Cardinality(Keys), 1)>> \o rest

\* Duration::from_secs(1), the timeout used when timeout_ms is not configured,
\* in ticks (a tick stands for half a second).
DefaultTimeoutTicks == 2

\* timeout_ms.map(from_millis).unwrap_or(from_secs(1)); 0 stands for None.
rate_limiting_timeout(timeout_ms) ==
    IF timeout_ms = 0 THEN DefaultTimeoutTicks ELSE timeout_ms

\* ------------------------------------------------------------- upstreams
PeerA == [address |-> "127.0.0.1:9000", sni |-> "a"]
PeerB == [address |-> "127.0.0.1:9001", sni |-> "b"]

\* A backend set in which a later upstream replaces the one with its address.
RECURSIVE BackendSet_LastWins(_, _)
BackendSet_LastWins(upstreams, acc) ==
    IF upstreams = <<>> THEN acc
    ELSE LET uppy == Head(upstreams)
             b == [address |-> uppy.address, ext |-> [has_peer |-> TRUE, peer |-> uppy]] IN
         IF \E i \in 1..Len(acc) : acc[i].address = uppy.address
         THEN BackendSet_LastWins(Tail(upstreams),
                  [i \in 1..Len(acc) |-> IF acc[i].address = uppy.address THEN b ELSE acc[i]])
         ELSE BackendSet_LastWins(Tail(upstreams), Append(acc, b))

\* The BTreeSet of backends, in address order, each with its peer as metadata.
RECURSIVE BackendSet(_, _)
BackendSet(upstreams, acc) ==
    IF upstreams = <<>> THEN acc
    ELSE LET uppy == Head(upstreams) IN
         IF \E i \in 1..Len(acc) : acc[i].address = uppy.address
         THEN BackendSet(Tail(upstreams), acc)
         ELSE BackendSet(Tail(upstreams),
                         Append(acc, [address |-> uppy.address,
                                      ext |-> [has_peer |-> TRUE, peer |-> uppy]]))

\* ------------------------------------------------------- configurations
CidrSettings == [kind |-> "block-cidr-range", addrs |-> <<"10.0.0.0/8">>]
RemoveSecretSettings == [kind |-> "remove-header-key-regex", pattern |-> ".*secret.*"]
UpsertFriendSettings == [kind |-> "upsert-header", key |-> "x-proxy-friend", value |-> "river"]
UpsertServerSettings == [kind |-> "upsert-header", key |-> "server", value |-> "river"]
RewriteSettings == [kind |-> "url-rewrite", regex |-> "^/a$", rewrite |-> "/b"]
UpsertBadSettings == [kind |-> "upsert-header", key |-> "bad name", value |-> "x"]

PathControl(rf, urq, urs) ==
    [request_filters |-> rf, upstream_request_filters |-> urq,
     upstream_response_filters |-> urs]

\* UpstreamOptions: the selection algorithm and the selector of its key.
UpstreamOptions(selection, selector) == [selection |-> selection, selector |-> selector]

ProxyConf(pc, rules, timeout_ms, upstream_options, upstreams) ==
    [path_control |-> pc, rules |-> rules, timeout_ms |-> timeout_ms,
     upstreams |-> upstreams, upstream_options |-> upstream_options]

CidrTwoSettings == [kind |-> "block-cidr-range", addrs |-> <<"192.168.0.0/16", "10.0.0.0/8">>]

\* The service configurations the model is run with: each selection
\* algorithm, each selector, each kind of modifier and of rule appears in one;
\* the last but one has no upstream, the last one does not build.
Configs ==
    { ProxyConf(PathControl(<<>>, <<RemoveSecretSettings, UpsertFriendSettings>>,
                            <<UpsertServerSettings, RemoveSecretSettings>>),
                <<>>, 0, UpstreamOptions("RoundRobin", "uri_path_selector"), <<PeerA, PeerB>>),
      ProxyConf(PathControl(<<CidrSettings>>, <<UpsertFriendSettings>>, <<>>),
                <<RuleSourceIp>>, 0, UpstreamOptions("Fnv", "uri_path_selector"),
                <<PeerA, PeerB>>),
      ProxyConf(PathControl(<<CidrSettings>>, <<>>, <<>>),
                <<RuleSourceIp, RuleDestIp, RuleUriA>>, 1,
                UpstreamOptions("Ketama", "source_addr_and_uri_path_selector"),
                <<PeerA, PeerB>>),
      ProxyConf(PathControl(<<CidrTwoSettings, CidrSettings>>,
                            <<UpsertBadSettings, UpsertFriendSettings>>,
                            <<UpsertBadSettings, UpsertServerSettings>>),
                <<>>, 0, UpstreamOptions("Random", "null_selector"), <<PeerA, PeerB>>),
      ProxyConf(PathControl(<<>>, <<>>, <<>>),
                <<>>, 0, UpstreamOptions("RoundRobin", "source_addr_and_uri_path_selector"),
                <<>>),
      ProxyConf(PathControl(<<>>, <<UpsertFriendSettings, RewriteSettings>>, <<>>),
                <<>>, 0, UpstreamOptions("RoundRobin", "null_selector"), <<PeerA, PeerB>>) }

\* RiverProxyService::from_basic_conf: from_conf(..).unwrap() leaves no service
\* when a list does not build.
from_basic_conf(conf) ==
    LET modifiers == from_conf(conf.path_control) IN
    [ok |-> modifiers.ok,
     conf |-> conf,
     modifiers |-> modifiers,
     backends |-> BackendSet(conf.upstreams, <<>>),
     selection |-> conf.upstream_options.selection,
     request_selector |-> conf.upstream_options.selector,
     rate_limiting_timeout |-> rate_limiting_timeout(conf.timeout_ms),
     request_filter_stage |-> request_filter_stage(conf.rules)]


\* ======================================================================
\* The proxy service: the request pipeline (proxy/mod.rs, impl ProxyHttp)
\* ======================================================================
\* The requests of a run, and the sessions (client address, URI path) they
\* come with: a blocked client, an allowed one on two paths, the same host
\* over IPv6 (IPv4-mapped), a Unix-socket client and a session without a
\* client address.
Reqs == {1, 2}
Sessions == { <<Inet("10.1.2.3"), "/a">>, <<Inet("8.8.8.8"), "/a">>,
              <<Inet("8.8.8.8"), "/b">>, <<Inet("::ffff:8.8.8.8"), "/a">>,
              <<UnixAddr, "/a">>, <<NoAddr, "/b">> }

\* IpCidr::contains, for the ranges and addresses of the model.
CidrContains(block, ip) ==
    \/ block = "10.0.0.0/8" /\ ip = "10.1.2.3"
    \/ block = "192.168.0.0/16" /\ ip = "192.168.1.1"
    \/ block = "0.0.0.0/0"

\* Regex::is_match on a header name, for the patterns of the model.
HeaderRegexMatch(regex, name) ==
    \/ regex = ".*secret.*" /\ name \in {"x-secret-token", "x-secret-resp"}
    \/ regex = "^(accept|via)$" /\ name \in {"accept", "via"}

\* The header names HeaderName::from_bytes accepts.
ValidHeaderName(name) == name # "bad name"

RequestHeaders == << <<"x-secret-token", "t0k3n">>, <<"accept", "*/*">> >>
ResponseHeaders == << <<"server", "upstream">>, <<"x-secret-resp", "s3cr3t">> >>

\* RiverContext::new_ctx and the session of a request that has not arrived.
NewReq ==
    [pc |-> "new", rf |-> "-", addr |-> NoAddr, path |-> "-",
     tickets |-> <<>>, rlStart |-> 0, arrivedAt |-> 0, rl |-> "-", sawEmpty |-> FALSE,
     fidx |-> 1, rfResult |-> "-", status |-> 0, phases |-> <<>>,
     forwarded |-> FALSE, backend |-> 0, peer |-> "-",
     selector_buf |-> <<>>, lbkey |-> <<"-">>,
     error |-> "-",
     header |-> RequestHeaders, upstream_response |-> <<>>, applied |-> <<>>]

\* The phases in the order of the phase chart.
PhaseOrder ==
    <<"request_filter", "upstream_peer", "upstream_request_filter",
      "upstream_response_filter">>

\* A host that asks for the peer only after the request was mutated.
EngineNext_PeerLast(phase, result) ==
    IF result \in {"Ok(true)", "Err", "panic"} THEN "done"
    ELSE IF phase = "request_filter" THEN "upstream_request_filter"
    ELSE IF phase = "upstream_request_filter" THEN "upstream_peer"
    ELSE IF phase = "upstream_peer" THEN "forward"
    ELSE IF phase = "forward" THEN "upstream_response_filter"
    ELSE "done"

\* The host engine's sequencing of the callbacks of one request (the phase
\* chart): the phase that follows `phase` once it returned `result`.
\* request_filter -> upstream_peer -> upstream_request_filter -> (the request
\* goes upstream, the response header arrives) -> upstream_response_filter;
\* Ok(true) from request_filter, an Err or a panic from any phase ends the
\* request.
EngineNext(phase, result) ==
    IF result \in {"Ok(true)", "Err", "panic"} THEN "done"
    ELSE IF phase = "request_filter" THEN "upstream_peer"
    ELSE IF phase = "upstream_peer" THEN "upstream_request_filter"
    ELSE IF phase = "upstream_request_filter" THEN "forward"
    ELSE IF phase = "forward" THEN "upstream_response_filter"
    ELSE "done"

Init ==
    /\ svc \in {from_basic_conf(c) : c \in Configs}
    /\ reqs = [r \in Reqs |-> NewReq]
    /\ pcache = [i \in 1..Len(svc.request_filter_stage) |-> [k \in Keys |-> 0]]
    /\ pbuckets = <<>>
    /\ lb = [next |-> 0, picks |-> <<>>]
    /\ now = 0
    /\ rcfg = RaterNew([tag |-> "SourceIp", pattern |-> {}], 1, 1, 1, 1)
    /\ cache = [k \in Keys |-> 0]
    /\ buckets = <<>>
    /\ wpc = [w \in Workers |-> "idle"]
    /\ wkey = [w \in Workers |-> NoKey]
    /\ wbucket = [w \in Workers |-> 0]
    /\ calls = 0
    /\ approved = [k \in Keys |-> 0]
    /\ created = [k \in Keys |-> 0]
    /\ firstBorn = [k \in Keys |-> -1]
    /\ evictions = 0
    /\ issued = {}
    /\ approvedOff = [k \in Keys |-> 0]
    /\ persisted = [k \in Keys |-> 0]
    /\ winStart = [k \in Keys |-> 0]
    /\ winCount = [k \in Keys |-> 0]
    /\ single = <<>>
    /\ msg = <<>> /\ loader = <<>> /\ files = <<>>

RaterUnchanged ==
    UNCHANGED <<rcfg, cache, buckets, wpc, wkey, wbucket, calls, approved, created,
                firstBorn, evictions, issued, approvedOff, persisted, winStart, winCount,
                single, aux>>

\* A connection is accepted and its request header read: the engine makes a
\* context (new_ctx) and calls request_filter. Requests are numbered in the
\* order of their arrival.
Arrive(r, addr, path) ==
    /\ svc.ok
    /\ reqs[r].pc = "new"
    /\ \A p \in Reqs : p < r => reqs[p].pc # "new"
    /\ reqs' = [reqs EXCEPT ![r] =
                  [@ EXCEPT !.pc = "request_filter", !.rf = "limits",
                            !.addr = addr, !.path = path, !.arrivedAt = now,
                            !.phases = <<"request_filter">>]]
    /\ UNCHANGED <<svc, pcache, pbuckets, lb, now>>
    /\ RaterUnchanged


\* The request leaves phase `phase` with `result`: the engine calls the next
\* callback, which is logged in the request's phases.
Leave(q, phase, result) ==
    LET nxt == EngineNext(phase, result) IN
    [q EXCEPT !.pc = nxt,
              !.phases = IF nxt \in {"upstream_peer", "upstream_request_filter",
                                     "upstream_response_filter"}
                         THEN Append(@, nxt) ELSE @]

\* ------------------------------------------------------- request_filter
\* The loop over request_filter_stage: limiter.get_ticket(session) for each
\* limiter in order, a ticket.wait() task spawned for every ticket. The
\* result is the caches and buckets after the loop and the tickets spawned;
\* panic tells that get_key unwrapped a missing client address.
RECURSIVE GetTickets(_, _, _, _, _, _, _)
GetTickets(i, addr, path, pc, pb, tks, t) ==
    IF i > Len(svc.request_filter_stage)
    THEN [pcache |-> pc, pbuckets |-> pb, tickets |-> tks, panic |-> FALSE]
    ELSE LET limiter == svc.request_filter_stage[i]
             key == RaterInstance_get_key(limiter.kind, addr, path)
             hit == CacheGet(pc[i], key)
             nb == new_rate_limiter(limiter, t)
             b == Len(pb) + 1
         IN IF key = PanicKey
            THEN [pcache |-> pc, pbuckets |-> pb, tickets |-> tks, panic |-> TRUE]
            ELSE IF key = NoKey
            THEN GetTickets(i + 1, addr, path, pc, pb, tks, t)
            ELSE IF hit # 0
            THEN GetTickets(i + 1, addr, path, pc, pb,
                            Append(tks, [rule |-> i, key |-> key, bucket |-> hit,
                                         state |-> "pending"]), t)
            ELSE GetTickets(i + 1, addr, path,
                            [pc EXCEPT ![i] = CacheInsert(pc[i], key, b, NoKey)],
                            Append(pb, [tokens |-> nb.tokens, born |-> nb.born,
                                        live |-> nb.live, rule |-> i]),
                            Append(tks, [rule |-> i, key |-> key, bucket |-> b,
                                         state |-> "pending"]), t)

\* A JoinSet whose tasks go on waiting after it was dropped.
AbortPending_Keep(tks) == tks

\* Dropping the JoinSet aborts the tasks that are still waiting.
AbortPending(tks) ==
    [i \in 1..Len(tks) |->
        IF tks[i].state = "pending" THEN [tks[i] EXCEPT !.state = "aborted"] ELSE tks[i]]

\* request_filter, up to the await on the tickets: no limiter -> straight to
\* the filters; otherwise the tickets are collected and awaited under the
\* timeout. A panic ends the request's task.
RF_GetTickets(r) ==
    LET q == reqs[r]
        g == GetTickets(1, q.addr, q.path, pcache, pbuckets, <<>>, now) IN
    /\ q.pc = "request_filter" /\ q.rf = "limits"
    /\ IF svc.request_filter_stage = <<>>
       THEN /\ reqs' = [reqs EXCEPT ![r] = [q EXCEPT !.rf = "filters", !.rl = "skipped"]]
            /\ UNCHANGED <<pcache, pbuckets>>
       ELSE /\ pcache' = g.pcache
            /\ pbuckets' = g.pbuckets
            /\ reqs' = [reqs EXCEPT ![r] =
                          IF g.panic
                          THEN [Leave(q, "request_filter", "panic") EXCEPT
                                   !.rf = "-", !.rfResult = "panic", !.rl = "panic",
                                   !.tickets = AbortPending(g.tickets)]
                          ELSE [q EXCEPT !.rf = "wait", !.rl = "waiting",
                                         !.tickets = g.tickets, !.rlStart = now]]
    /\ UNCHANGED <<svc, lb, now>>
    /\ RaterUnchanged

\* Ticket::wait of one spawned task: acquire_owned(1) completes once the
\* bucket has a token for it, and takes it.
TicketWait(r, i) ==
    LET q == reqs[r] IN
    /\ q.pc = "request_filter" /\ q.rf = "wait"
    /\ i \in 1..Len(q.tickets)
    /\ q.tickets[i].state = "pending"
    /\ try_acquire(pbuckets[q.tickets[i].bucket])
    /\ pbuckets' = [pbuckets EXCEPT ![q.tickets[i].bucket].tokens = @ - 1]
    /\ reqs' = [reqs EXCEPT ![r].tickets[i].state = "granted"]
    /\ UNCHANGED <<svc, pcache, lb, now>>
    /\ RaterUnchanged

\* A future that completes as soon as one task has.
AllTicketsObtained_Any(tks) == \E i \in 1..Len(tks) : tks[i].state = "granted"

\* total_ticket_fut: completes with Ok(()) when every spawned task has.
AllTicketsObtained(tks) == \A i \in 1..Len(tks) : tks[i].state = "granted"

\* timeout(..) returned Ok(Ok(())): "Rate limiter completed!".
RF_RateDone(r) ==
    LET q == reqs[r] IN
    /\ q.pc = "request_filter" /\ q.rf = "wait"
    /\ AllTicketsObtained(q.tickets)
    /\ reqs' = [reqs EXCEPT ![r] = [q EXCEPT !.rf = "filters", !.rl = "admitted"]]
    /\ UNCHANGED <<svc, pcache, pbuckets, lb, now>>
    /\ RaterUnchanged

\* A timeout that never expires.
Elapsed_Never(q, duration) == FALSE

\* tokio::time::timeout(duration, total_ticket_fut) gives Err(Elapsed): the
\* duration has passed since the wait began and a ticket is still waiting.
Elapsed(q, duration) ==
    ~AllTicketsObtained(q.tickets) /\ now - q.rlStart >= duration

\* timeout(..) returned Err(Elapsed): rate_limiting_timeout has passed with a
\* ticket still waiting; the future and its JoinSet are dropped.
RF_RateTimeout(r) ==
    LET q == reqs[r] IN
    /\ q.pc = "request_filter" /\ q.rf = "wait"
    /\ Elapsed(q, svc.rate_limiting_timeout)
    /\ reqs' = [reqs EXCEPT ![r] = [q EXCEPT !.rf = "respond429", !.rl = "rejected",
                                             !.tickets = AbortPending(q.tickets)]]
    /\ UNCHANGED <<svc, pcache, pbuckets, lb, now>>
    /\ RaterUnchanged

\* A rejection that lets the request go on.
RejectResult_Continue == "Ok(false)"

\* What request_filter returns after respond_error(429).
RejectResult == "Ok(true)"

\* The two 429 branches: respond_error(429), then return Ok(true).
RF_Respond429(r) ==
    LET q == reqs[r] IN
    /\ q.pc = "request_filter" /\ q.rf = "respond429"
    /\ reqs' = [reqs EXCEPT ![r] =
                  [Leave(q, "request_filter", RejectResult) EXCEPT
                      !.rf = "-", !.status = 429, !.rfResult = RejectResult]]
    /\ UNCHANGED <<svc, pcache, pbuckets, lb, now>>
    /\ RaterUnchanged

\* A filter that answers 401 and lets the request go on.
CidrRangeFilter_request_filter_Continue(filter, addr) ==
    IF addr.sock = "none" THEN [result |-> "Ok(false)", status |-> 401]
    ELSE IF addr.sock = "unix" THEN [result |-> "Ok(false)", status |-> 0]
    ELSE IF \E i \in 1..Len(filter.blocks) : CidrContains(filter.blocks[i], addr.ip)
    THEN [result |-> "Ok(false)", status |-> 401]
    ELSE [result |-> "Ok(false)", status |-> 0]

\* A filter that looks at its first block only.
CidrRangeFilter_request_filter_FirstBlock(filter, addr) ==
    IF addr.sock = "none" THEN [result |-> "Ok(true)", status |-> 401]
    ELSE IF addr.sock = "unix" THEN [result |-> "Ok(false)", status |-> 0]
    ELSE IF Len(filter.blocks) >= 1 /\ CidrContains(filter.blocks[1], addr.ip)
    THEN [result |-> "Ok(true)", status |-> 401]
    ELSE [result |-> "Ok(false)", status |-> 0]

\* CidrRangeFilter::request_filter: no client address -> 401, complete; a
\* Unix socket -> continue; an address inside a block -> 401, complete.
CidrRangeFilter_request_filter(filter, addr) ==
    IF addr.sock = "none" THEN [result |-> "Ok(true)", status |-> 401]
    ELSE IF addr.sock = "unix" THEN [result |-> "Ok(false)", status |-> 0]
    ELSE IF \E i \in 1..Len(filter.blocks) : CidrContains(filter.blocks[i], addr.ip)
    THEN [result |-> "Ok(true)", status |-> 401]
    ELSE [result |-> "Ok(false)", status |-> 0]

\* One turn of the loop over modifiers.request_filters: Ok(true) is returned
\* at once, Ok(false) moves on to the next filter.
RF_Filter(r) ==
    LET q == reqs[r]
        filters == svc.modifiers.request_filters
        o == CidrRangeFilter_request_filter(filters[q.fidx], q.addr)
        logged == [q EXCEPT !.applied = Append(@, <<"request_filter", q.fidx>>),
                            !.status = IF o.status # 0 THEN o.status ELSE @] IN
    /\ q.pc = "request_filter" /\ q.rf = "filters"
    /\ q.fidx <= Len(filters)
    /\ reqs' = [reqs EXCEPT ![r] =
                  IF o.result = "Ok(true)"
                  THEN [Leave(logged, "request_filter", o.result) EXCEPT
                           !.rf = "-", !.rfResult = o.result]
                  ELSE [logged EXCEPT !.fidx = @ + 1]]
    /\ UNCHANGED <<svc, pcache, pbuckets, lb, now>>
    /\ RaterUnchanged

\* The loop is over: request_filter returns Ok(false).
RF_Continue(r) ==
    LET q == reqs[r] IN
    /\ q.pc = "request_filter" /\ q.rf = "filters"
    /\ q.fidx > Len(svc.modifiers.request_filters)
    /\ reqs' = [reqs EXCEPT ![r] =
                  [Leave(q, "request_filter", "Ok(false)") EXCEPT
                      !.rf = "-", !.rfResult = "Ok(false)"]]
    /\ UNCHANGED <<svc, pcache, pbuckets, lb, now>>
    /\ RaterUnchanged

\* -------------------------------------------------------- upstream_peer
\* The Debug form of Option<&SocketAddr>, as the pieces written to the buffer.
DebugAddr(addr) ==
    IF addr.sock = "none" THEN <<"None">>
    ELSE IF addr.sock = "unix" THEN <<"Some(Unix(", "))">>
    ELSE <<"Some(Inet(", addr.ip, "))">>

\* The selectors: the buffer of the context after the call, and the key.
null_selector(buf, addr, path) == [buf |-> buf, key |-> <<>>]

uri_path_selector(buf, addr, path) == [buf |-> buf, key |-> <<path>>]

\* A selector that leaves the colon out.
source_addr_and_uri_path_selector_NoColon(buf, addr, path) ==
    LET out == buf \o DebugAddr(addr) \o <<path>> IN [buf |-> out, key |-> out]

\* write!(&mut ctxt.selector_buf, "{:?}:{}", client_addr, path) appends to the
\* buffer; the key is the whole buffer.
source_addr_and_uri_path_selector(buf, addr, path) ==
    LET out == buf \o DebugAddr(addr) \o <<":", path>> IN [buf |-> out, key |-> out]

\* (self.request_selector)(ctx, session)
RequestSelector(selector, buf, addr, path) ==
    IF selector = "null_selector" THEN null_selector(buf, addr, path)
    ELSE IF selector = "uri_path_selector" THEN uri_path_selector(buf, addr, path)
    ELSE source_addr_and_uri_path_selector(buf, addr, path)

\* A buffer that is left as it is.
Clear_Keep(buf) == buf

\* ctx.selector_buf.clear()
Clear(buf) == <<>>

\* A hash of the key bytes, for the keys of the model.
PieceCode(piece) ==
    IF piece = "/a" THEN 1 ELSE IF piece = "/b" THEN 2
    ELSE IF piece = "8.8.8.8" THEN 3 ELSE IF piece = "10.1.2.3" THEN 5
    ELSE IF piece = "None" THEN 4 ELSE IF piece = "::ffff:8.8.8.8" THEN 6 ELSE 0

RECURSIVE KeyHash(_)
KeyHash(key) == IF key = <<>> THEN 0 ELSE PieceCode(Head(key)) + KeyHash(Tail(key))

\* The selection algorithms of the balancer over n backends: the indices
\* select may return (0: none) for a key, given the balancer's state.
\* RoundRobin: the counter modulo n, the key ignored.
RoundRobin_select(n, key, lbs) == IF n = 0 THEN {0} ELSE {(lbs.next % n) + 1}

\* Random: any backend.
Random_select(n, key, lbs) == IF n = 0 THEN {0} ELSE 1..n

\* FNV: a hash of the key bytes modulo n.
FVNHash_select(n, key, lbs) == IF n = 0 THEN {0} ELSE {(KeyHash(key) % n) + 1}

\* Ketama: the key's point on a fixed ring of the backends.
KetamaHashing_select(n, key, lbs) ==
    IF n = 0 THEN {0} ELSE {(((KeyHash(key) + 1) \div 2) % n) + 1}

\* A service that hands out its backends in turn whatever selection the
\* configuration asks for.
Select_InTurn(selection, n, key, lbs) ==
    IF n = 0 THEN {0} ELSE {(Len(lbs.picks) % n) + 1}

\* river_proxy_service picks the balancer type from upstream_options.selection;
\* load_balancer.select(key, 256) then runs its algorithm.
Select(selection, n, key, lbs) ==
    IF selection = "RoundRobin" THEN RoundRobin_select(n, key, lbs)
    ELSE IF selection = "Random" THEN Random_select(n, key, lbs)
    ELSE IF selection = "Fnv" THEN FVNHash_select(n, key, lbs)
    ELSE KetamaHashing_select(n, key, lbs)

\* A counter that does not move.
RoundRobinAdvance_Stuck(next) == next

\* The round-robin counter after one selection (fetch_add(1)).
RoundRobinAdvance(next) == next + 1

\* A lookup that answers with the first backend's peer whatever was selected.
BackendPeer_First(backends, i) ==
    IF i = 0 THEN [ok |-> FALSE, error |-> "Unable to determine backend", peer |-> "-"]
    ELSE [ok |-> TRUE, error |-> "-", peer |-> backends[1].ext.peer.address]

\* backend.ok_or_else(..)?, then backend.ext.get::<HttpPeer>(): the result of
\* upstream_peer for the selected backend (0: none was selected).
BackendPeer(backends, i) ==
    IF i = 0 THEN [ok |-> FALSE, error |-> "Unable to determine backend", peer |-> "-"]
    ELSE IF ~backends[i].ext.has_peer
    THEN [ok |-> FALSE, error |-> "Fatal: Missing selected backend metadata", peer |-> "-"]
    ELSE [ok |-> TRUE, error |-> "-", peer |-> backends[i].ext.peer.address]

\* upstream_peer: the selector's key, load_balancer.select(key, 256), the
\* selector buffer cleared, then the errors: no backend selected, or a backend
\* without an HttpPeer in its metadata; otherwise the peer of the metadata.
UpstreamPeer(r) ==
    LET q == reqs[r]
        sel == RequestSelector(svc.request_selector, q.selector_buf, q.addr, q.path)
        cleared == [q EXCEPT !.selector_buf = Clear(sel.buf), !.lbkey = sel.key] IN
    /\ q.pc = "upstream_peer"
    /\ \E i \in Select(svc.selection, Len(svc.backends), sel.key, lb) :
          LET res == BackendPeer(svc.backends, i) IN
          /\ lb' = [next |-> IF svc.selection = "RoundRobin" /\ i # 0
                             THEN RoundRobinAdvance(lb.next) ELSE lb.next,
                    picks |-> Append(lb.picks, i)]
          /\ reqs' = [reqs EXCEPT ![r] =
                [Leave(cleared, "upstream_peer", IF res.ok THEN "Ok" ELSE "Err") EXCEPT
                    !.backend = i, !.error = res.error, !.peer = res.peer]]
    /\ UNCHANGED <<svc, pcache, pbuckets, now>>
    /\ RaterUnchanged

\* ----------------------------------------------- header modifiers
\* A header is the sequence of <<name, value>> pairs in the order the header
\* map yields them: one entry per name, in entry order, each entry with all
\* the values of its name.
\* headers.keys(): each name once, in entry order.
HeaderKeys(header) ==
    LET First(i) == \A j \in 1..(i - 1) : header[j][1] # header[i][1]
        idx == SelectSeq([i \in 1..Len(header) |-> i], First)
    IN [k \in 1..Len(idx) |-> header[idx[k]][1]]

\* The values of one entry.
HeaderEntry(header, name) ==
    LET Named(h) == h[1] = name IN SelectSeq(header, Named)

\* The header whose entries are those of `header` in the order `keys`.
RECURSIVE HeaderOf(_, _)
HeaderOf(keys, header) ==
    IF keys = <<>> THEN <<>>
    ELSE HeaderEntry(header, Head(keys)) \o HeaderOf(Tail(keys), header)

\* remove_header: the entry of the name goes with every value of it, and the
\* header map moves its last entry into the place of the removed one.
remove_header(header, name) ==
    LET keys == HeaderKeys(header)
        n == Len(keys) IN
    IF \A i \in 1..n : keys[i] # name THEN header
    ELSE LET at == CHOOSE i \in 1..n : keys[i] = name
             left == [k \in 1..(n - 1) |-> IF k = at THEN keys[n] ELSE keys[k]]
         IN HeaderOf(left, header)

\* append_header: a value more for an entry there is, a new last entry
\* otherwise.
append_header(header, name, value) ==
    LET keys == HeaderKeys(header) IN
    IF \E i \in 1..Len(keys) : keys[i] = name
    THEN HeaderOf(keys, Append(header, <<name, value>>))
    ELSE Append(header, <<name, value>>)

\* The names to remove are removed one after the other.
RECURSIVE RemoveAll(_, _)
RemoveAll(names, header) ==
    IF names = <<>> THEN header
    ELSE RemoveAll(Tail(names), remove_header(header, Head(names)))

\* RemoveHeaderKeyRegex: the names that match are collected from
\* headers.keys(), then each is removed.
RemoveHeaderKeyRegex_apply(m, header) ==
    LET Matches(k) == HeaderRegexMatch(m.regex, k) IN
    RemoveAll(SelectSeq(HeaderKeys(header), Matches), header)

\* UpsertHeader: remove_header(key), then append_header(key, value), which
\* fails on a name that is no header name.
UpsertHeader_apply(m, header) ==
    IF ValidHeaderName(m.key)
    THEN [ok |-> TRUE, header |-> append_header(remove_header(header, m.key), m.key, m.value)]
    ELSE [ok |-> FALSE, header |-> remove_header(header, m.key)]

\* One request-side modifier.
RequestModifier_apply(m, header) ==
    IF m.kind = "remove-header-key-regex"
    THEN [ok |-> TRUE, header |-> RemoveHeaderKeyRegex_apply(m, header)]
    ELSE UpsertHeader_apply(m, header)

\* One response-side modifier: the result of append_header is dropped.
ResponseModifier_apply(m, header) ==
    IF m.kind = "remove-header-key-regex"
    THEN RemoveHeaderKeyRegex_apply(m, header)
    ELSE UpsertHeader_apply(m, header).header

\* A loop over the request-side list from its last modifier to its first.
RECURSIVE ApplyRequestModifiers_Reversed(_, _, _, _)
ApplyRequestModifiers_Reversed(mods, i, header, log) ==
    LET j == Len(mods) + 1 - i IN
    IF i > Len(mods) THEN [ok |-> TRUE, header |-> header, applied |-> log]
    ELSE LET res == RequestModifier_apply(mods[j], header)
             log2 == Append(log, <<"upstream_request_filter", j>>)
         IN IF ~res.ok THEN [ok |-> FALSE, header |-> res.header, applied |-> log2]
            ELSE ApplyRequestModifiers_Reversed(mods, i + 1, res.header, log2)

\* A loop that goes through the whole list and reports an error at the end.
RECURSIVE ApplyRequestModifiers_KeepGoing(_, _, _, _)
ApplyRequestModifiers_KeepGoing(mods, i, header, log) ==
    IF i > Len(mods) THEN [ok |-> TRUE, header |-> header, applied |-> log]
    ELSE LET res == RequestModifier_apply(mods[i], header)
             rest == ApplyRequestModifiers_KeepGoing(mods, i + 1, res.header,
                         Append(log, <<"upstream_request_filter", i>>))
         IN [rest EXCEPT !.ok = res.ok /\ @]

\* The loop of upstream_request_filter: each modifier in list order, the
\* first error returned at once.
RECURSIVE ApplyRequestModifiers(_, _, _, _)
ApplyRequestModifiers(mods, i, header, log) ==
    IF i > Len(mods) THEN [ok |-> TRUE, header |-> header, applied |-> log]
    ELSE LET res == RequestModifier_apply(mods[i], header)
             log2 == Append(log, <<"upstream_request_filter", i>>)
         IN IF ~res.ok THEN [ok |-> FALSE, header |-> res.header, applied |-> log2]
            ELSE ApplyRequestModifiers(mods, i + 1, res.header, log2)

\* The loop of upstream_response_filter: each modifier in list order.
RECURSIVE ApplyResponseModifiers(_, _, _, _)
ApplyResponseModifiers(mods, i, header, log) ==
    IF i > Len(mods) THEN [header |-> header, applied |-> log]
    ELSE ApplyResponseModifiers(mods, i + 1, ResponseModifier_apply(mods[i], header),
                                Append(log, <<"upstream_response_filter", i>>))

\* ------------------------------------------- upstream_request_filter
UpstreamRequestFilter(r) ==
    LET q == reqs[r]
        res == ApplyRequestModifiers(svc.modifiers.upstream_request_filters, 1,
                                     q.header, q.applied) IN
    /\ q.pc = "upstream_request_filter"
    /\ reqs' = [reqs EXCEPT ![r] =
                  [Leave(q, "upstream_request_filter", IF res.ok THEN "Ok" ELSE "Err")
                     EXCEPT !.header = res.header, !.applied = res.applied]]
    /\ UNCHANGED <<svc, pcache, pbuckets, lb, now>>
    /\ RaterUnchanged

\* The engine sends the request to the peer and reads the response header.
Forward(r) ==
    LET q == reqs[r] IN
    /\ q.pc = "forward"
    /\ reqs' = [reqs EXCEPT ![r] =
                  [Leave(q, "forward", "Ok") EXCEPT
                      !.forwarded = TRUE, !.upstream_response = ResponseHeaders]]
    /\ UNCHANGED <<svc, pcache, pbuckets, lb, now>>
    /\ RaterUnchanged

\* ------------------------------------------ upstream_response_filter
UpstreamResponseFilter(r) ==
    LET q == reqs[r]
        res == ApplyResponseModifiers(svc.modifiers.upstream_response_filters, 1,
                                      q.upstream_response, q.applied) IN
    /\ q.pc = "upstream_response_filter"
    /\ reqs' = [reqs EXCEPT ![r] =
                  [Leave(q, "upstream_response_filter", "Ok") EXCEPT
                      !.upstream_response = res.header, !.applied = res.applied,
                      !.status = 200]]
    /\ UNCHANGED <<svc, pcache, pbuckets, lb, now>>
    /\ RaterUnchanged

\* ------------------------------------------------------------- the clock
\* A request whose ticket task is parked on a bucket without a token.
WaitsOnEmpty(q) ==
    /\ q.pc = "request_filter" /\ q.rf = "wait"
    /\ \E i \in 1..Len(q.tickets) :
          q.tickets[i].state = "pending" /\ pbuckets[q.tickets[i].bucket].tokens = 0

\* Time passes: the buckets of the service's limiters refill. Nothing else
\* reads the clock, which stands still in a service without limiters.
ServiceTick ==
    /\ svc.ok
    /\ svc.request_filter_stage # <<>>
    /\ now < MaxTime
    /\ now' = now + 1
    /\ pbuckets' = [i \in 1..Len(pbuckets) |->
                      Refill(svc.request_filter_stage[pbuckets[i].rule], pbuckets[i], now + 1)]
    /\ reqs' = [r \in Reqs |->
                  IF WaitsOnEmpty(reqs[r]) THEN [reqs[r] EXCEPT !.sawEmpty = TRUE]
                  ELSE reqs[r]]
    /\ UNCHANGED <<svc, pcache, lb>>
    /\ RaterUnchanged

Next ==
    \/ \E r \in Reqs, ses \in Sessions : Arrive(r, ses[1], ses[2])
    \/ \E r \in Reqs : RF_GetTickets(r)
    \/ \E r \in Reqs : \E i \in 1..Len(reqs[r].tickets) : TicketWait(r, i)
    \/ \E r \in Reqs : RF_RateDone(r)
    \/ \E r \in Reqs : RF_RateTimeout(r)
    \/ \E r \in Reqs : RF_Respond429(r)
    \/ \E r \in Reqs : RF_Filter(r)
    \/ \E r \in Reqs : RF_Continue(r)
    \/ \E r \in Reqs : UpstreamPeer(r)
    \/ \E r \in Reqs : UpstreamRequestFilter(r)
    \/ \E r \in Reqs : Forward(r)
    \/ \E r \in Reqs : UpstreamResponseFilter(r)
    \/ ServiceTick

Spec == Init /\ [][Next]_vars

\* ------------------------------------------------- the pipeline's claims
IsPrefix(a, b) == Len(a) <= Len(b) /\ \A i \in 1..Len(a) : a[i] = b[i]

\* The indices of the modifiers of phase `phase` that were applied to q, in
\* the order they were applied.
PhaseLog(q, phase) ==
    LET InPhase(e) == e[1] = phase IN SelectSeq(q.applied, InPhase)

\* C1: whatever the interleaving of the requests, the callbacks invoked for a
\* request are a prefix of request_filter, upstream_peer,
\* upstream_request_filter, upstream_response_filter, a request is forwarded
\* only after the first three, and the callback a request is in is the last
\* one invoked for it.
C1_PhaseOrder ==
    \A r \in Reqs :
        LET q == reqs[r] IN
        /\ IsPrefix(q.phases, PhaseOrder)
        /\ q.pc \in {"request_filter", "upstream_peer", "upstream_request_filter",
                     "upstream_response_filter"} => q.phases[Len(q.phases)] = q.pc
        /\ q.forwarded => Len(q.phases) >= 3
        /\ q.pc = "forward" => Len(q.phases) = 3

\* C1's case: one request went through all four phases while another one is
\* in the middle of its own.
C1_Witness ==
    \E r1, r2 \in Reqs :
        /\ reqs[r1].phases = PhaseOrder /\ reqs[r1].pc = "done"
        /\ reqs[r2].pc = "upstream_request_filter"

\* C2: once request_filter completed a request (it returned Ok(true), having
\* answered 401 or 429), no later phase runs for it and nothing is sent
\* upstream.
C2_CompleteStops ==
    \A r \in Reqs :
        LET q == reqs[r] IN
        (q.rfResult = "Ok(true)" \/ q.status \in {401, 429}) =>
            /\ q.pc = "done"
            /\ q.rfResult = "Ok(true)"
            /\ q.phases = <<"request_filter">>
            /\ ~q.forwarded /\ q.peer = "-"

\* C2's case: one request was answered 401 by the CIDR filter, another one
\* 429 by the rate-limit stage.
C2_Witness ==
    \E r1, r2 \in Reqs :
        /\ reqs[r1].status = 401 /\ reqs[r1].rfResult = "Ok(true)"
        /\ reqs[r2].status = 429 /\ reqs[r2].rfResult = "Ok(true)"

\* C3 as stated: the dispatcher tries each ticket once, without blocking; a
\* request whose ticket finds its bucket without a token is rejected at once,
\* so no request is ever left waiting for a bucket to refill while time
\* passes.
C3_EagerTryNow ==
    \A r \in Reqs : ~reqs[r].sawEmpty

\* The number of requests the rate-limit stage has decided one way.
Decided(how) == Cardinality({r \in Reqs : reqs[r].rl = how})

\* C5 as stated, in the half that does not depend on how promptly the tasks
\* are scheduled: with one source-ip rule of M tokens, when n > M requests of
\* one client arrive at the same instant, no more than M of them are admitted
\* (the other n - M get 429).
C5_BurstAtMostM ==
    LET burst ==
            /\ svc.ok
            /\ Len(svc.request_filter_stage) = 1
            /\ svc.request_filter_stage[1].kind.tag = "SourceIp"
            /\ \A r \in Reqs : /\ reqs[r].addr = Inet("8.8.8.8")
                               /\ reqs[r].rl \in {"admitted", "rejected"}
                               /\ reqs[r].rlStart = 0
        M == svc.request_filter_stage[1].max_tokens_per_bucket
    IN burst => /\ Decided("admitted") <= M
                /\ Decided("rejected") >= Cardinality(Reqs) - M

\* C6: a request_filters modifier runs for a request only after the
\* rate-limit stage has decided it (every ticket obtained, or no limiter
\* configured), and a request the stage rejected is never handed to one.
C6_LimitsBeforeFilters ==
    \A r \in Reqs :
        LET q == reqs[r] IN
        /\ PhaseLog(q, "request_filter") # <<>> =>
              /\ q.rl \in {"admitted", "skipped"}
              /\ \A i \in 1..Len(q.tickets) : q.tickets[i].state = "granted"
        /\ q.rf = "filters" => q.rl \in {"admitted", "skipped"}
        /\ q.rl \in {"rejected", "panic", "waiting"} => PhaseLog(q, "request_filter") = <<>>

\* C6's case: one request holds both of its tickets and has been through the
\* CIDR filter, another one was rejected by the rate-limit stage and has seen
\* no filter.
C6_Witness ==
    \E r1, r2 \in Reqs :
        /\ reqs[r1].rl = "admitted" /\ Len(reqs[r1].tickets) = 2
        /\ PhaseLog(reqs[r1], "request_filter") # <<>>
        /\ reqs[r2].rl = "rejected" /\ reqs[r2].status = 429

\* The built list holds, position by position, the modifier of the
\* configured list.
SameOrder(built, conf) ==
    /\ Len(built) = Len(conf)
    /\ \A i \in 1..Len(conf) :
          /\ built[i].kind = conf[i].kind
          /\ built[i].kind = "upsert-header" =>
                built[i].key = conf[i].key /\ built[i].value = conf[i].value
          /\ built[i].kind = "remove-header-key-regex" => built[i].regex = conf[i].pattern
          /\ built[i].kind = "block-cidr-range" => built[i].blocks = conf[i].addrs

\* C7: from_conf builds each list with the configured modifiers in the
\* configured order (none dropped, duplicated or moved), and in each phase the
\* modifiers are applied to a request in that order: the k-th modifier
\* applied is the k-th of the list.
C7_ModifierOrder ==
    /\ svc.ok =>
          /\ SameOrder(svc.modifiers.request_filters,
                       svc.conf.path_control.request_filters)
          /\ SameOrder(svc.modifiers.upstream_request_filters,
                       svc.conf.path_control.upstream_request_filters)
          /\ SameOrder(svc.modifiers.upstream_response_filters,
                       svc.conf.path_control.upstream_response_filters)
    /\ \A r \in Reqs : \A phase \in {PhaseOrder[i] : i \in 1..Len(PhaseOrder)} :
          LET log == PhaseLog(reqs[r], phase) IN
          \A k \in 1..Len(log) : log[k][2] = k
    /\ \A r \in Reqs :
          reqs[r].pc = "done" /\ reqs[r].phases = PhaseOrder =>
             /\ Len(PhaseLog(reqs[r], "upstream_request_filter"))
                   = Len(svc.conf.path_control.upstream_request_filters)
             /\ Len(PhaseLog(reqs[r], "upstream_response_filter"))
                   = Len(svc.conf.path_control.upstream_response_filters)

\* C7's case: a request went through two request modifiers and two response
\* modifiers; the secret header is gone, the upserted ones are last.
C7_Witness ==
    \E r \in Reqs :
        /\ reqs[r].pc = "done"
        /\ PhaseLog(reqs[r], "upstream_request_filter")
              = << <<"upstream_request_filter", 1>>, <<"upstream_request_filter", 2>> >>
        /\ PhaseLog(reqs[r], "upstream_response_filter")
              = << <<"upstream_response_filter", 1>>, <<"upstream_response_filter", 2>> >>
        /\ reqs[r].header = << <<"accept", "*/*">>, <<"x-proxy-friend", "river">> >>
        /\ reqs[r].upstream_response = << <<"server", "river">> >>

\* C8: a request the rate-limit stage rejected is answered 429 and
\* request_filter returns Ok(true) for it, never an error; and a 429 is only
\* ever the answer to such a rejection.
C8_RejectIsOkTrue ==
    \A r \in Reqs :
        LET q == reqs[r] IN
        /\ q.rl = "rejected" =>
              \/ q.pc = "request_filter" /\ q.rf = "respond429" /\ q.status = 0
              \/ q.pc = "done" /\ q.rfResult = "Ok(true)" /\ q.status = 429
        /\ q.status = 429 => q.rl = "rejected"

\* C8's case: a request waited for its ticket until the timeout and was
\* answered 429.
C8_Witness ==
    \E r \in Reqs :
        /\ reqs[r].rl = "rejected" /\ reqs[r].pc = "done"
        /\ reqs[r].status = 429 /\ reqs[r].sawEmpty

\* C14: two tickets draw on the same bucket only if their keys have the same
\* variant and the same payload, that is, only if both are source-IP keys of
\* the same client address (an IPv4 address and the IPv6 address of the same
\* host are different) or both are URI keys of the same path; a source-IP key
\* and a URI key never share a bucket.
C14_KeyVariance ==
    \A r1, r2 \in Reqs :
        \A i \in 1..Len(reqs[r1].tickets), j \in 1..Len(reqs[r2].tickets) :
            LET t1 == reqs[r1].tickets[i]
                t2 == reqs[r2].tickets[j] IN
            /\ t1.bucket = t2.bucket =>
                  /\ t1.key.tag = t2.key.tag /\ t1.key.v = t2.key.v
                  /\ t1.key.tag = "Source" => reqs[r1].addr = reqs[r2].addr
                  /\ t1.key.tag = "Uri" => reqs[r1].path = reqs[r2].path
            /\ (t1.rule = t2.rule /\ t1.key = t2.key) => t1.bucket = t2.bucket
            /\ t1.key.tag # t2.key.tag => t1.bucket # t2.bucket

\* C14's case: the same host came once over IPv4 and once over IPv6 with the
\* same path: the source-IP tickets are on two buckets, different from the
\* one bucket the two URI tickets share.
C14_Witness ==
    \E r1, r2 \in Reqs :
        /\ reqs[r1].addr = Inet("8.8.8.8") /\ reqs[r2].addr = Inet("::ffff:8.8.8.8")
        /\ Len(reqs[r1].tickets) = 2 /\ Len(reqs[r2].tickets) = 2
        /\ reqs[r1].tickets[1].key.tag = "Source" /\ reqs[r2].tickets[1].key.tag = "Source"
        /\ reqs[r1].tickets[1].bucket # reqs[r2].tickets[1].bucket
        /\ reqs[r1].tickets[2].key.tag = "Uri"
        /\ reqs[r1].tickets[2].bucket = reqs[r2].tickets[2].bucket

\* The client address is an IP address inside at least one block of a
\* configured block-cidr-range filter.
InSomeBlock(addr) ==
    /\ addr.sock = "inet"
    /\ \E i \in 1..Len(svc.modifiers.request_filters) :
          \E j \in 1..Len(svc.modifiers.request_filters[i].blocks) :
              CidrContains(svc.modifiers.request_filters[i].blocks[j], addr.ip)

\* C15: once the block-cidr-range filter ran for a request: a session without
\* a client address was answered 401 and stopped; a Unix-socket client
\* continues without a response; a client whose IP address is inside at least
\* one block was answered 401 and stopped; any other client continues
\* without a response.
C15_CidrFilter ==
    \A r \in Reqs :
        LET q == reqs[r]
            stopped == /\ q.status = 401 /\ q.rfResult = "Ok(true)" /\ q.pc = "done"
                       /\ q.phases = <<"request_filter">> /\ ~q.forwarded
            continues == /\ q.status \notin {401, 429}
                         /\ q.rfResult \in {"-", "Ok(false)"}
                         /\ q.rfResult = "-" => q.status = 0 IN
        PhaseLog(q, "request_filter") # <<>> =>
            /\ q.addr.sock = "none" => stopped
            /\ q.addr.sock = "unix" => continues
            /\ InSomeBlock(q.addr) => stopped
            /\ (q.addr.sock = "inet" /\ ~InSomeBlock(q.addr)) => continues

\* C15's case: of two ranges only the second holds the client that was
\* answered 401, and a session without a client address was answered 401.
C15_Witness ==
    \E r1, r2 \in Reqs :
        /\ Len(svc.modifiers.request_filters) >= 1
        /\ Len(svc.modifiers.request_filters[1].blocks) = 2
        /\ reqs[r1].addr = NoAddr /\ reqs[r1].status = 401
        /\ PhaseLog(reqs[r1], "request_filter") # <<>>
        /\ reqs[r2].addr = Inet("10.1.2.3") /\ reqs[r2].status = 401
        /\ ~CidrContains(svc.modifiers.request_filters[1].blocks[1], "10.1.2.3")

\* C15's other case: a Unix-socket client and a client outside every block
\* went past the filter and were forwarded.
C15_WitnessContinue ==
    \E r1, r2 \in Reqs :
        /\ reqs[r1].addr = UnixAddr /\ reqs[r2].addr = Inet("8.8.8.8")
        /\ PhaseLog(reqs[r1], "request_filter") # <<>> /\ reqs[r1].forwarded
        /\ PhaseLog(reqs[r2], "request_filter") # <<>> /\ reqs[r2].forwarded

\* upstream_peer has returned for the request.
PeerReturned(q) == Len(q.phases) >= 2 /\ q.pc # "upstream_peer"

\* C16: once upstream_peer returned for a request: if a backend was selected
\* and carries a peer, the peer returned is the one stored with that backend;
\* if no backend was selected the call failed with the no-backend error; if
\* the backend carries no peer it failed with the missing-metadata error; and
\* after either failure the request is not forwarded.
C16_UpstreamPeer ==
    \A r \in Reqs :
        LET q == reqs[r] IN
        /\ PeerReturned(q) =>
              /\ q.backend = 0 =>
                    q.error = "Unable to determine backend" /\ q.peer = "-"
              /\ (q.backend # 0 /\ ~svc.backends[q.backend].ext.has_peer) =>
                    q.error = "Fatal: Missing selected backend metadata" /\ q.peer = "-"
              /\ (q.backend # 0 /\ svc.backends[q.backend].ext.has_peer) =>
                    /\ q.error = "-"
                    /\ q.peer = svc.backends[q.backend].address
                    /\ q.peer = svc.backends[q.backend].ext.peer.address
              /\ Len(svc.backends) = 0 => q.backend = 0
              /\ q.error # "-" =>
                    /\ q.pc = "done" /\ ~q.forwarded
                    /\ q.phases = <<"request_filter", "upstream_peer">>
        /\ ~PeerReturned(q) => q.peer = "-" /\ q.error = "-"

\* C16's case: two requests were given the peers of two different backends
\* and forwarded.
C16_Witness ==
    \E r1, r2 \in Reqs :
        /\ reqs[r1].backend = 1 /\ reqs[r1].peer = svc.backends[1].address
        /\ reqs[r2].backend = 2 /\ reqs[r2].peer = svc.backends[2].address
        /\ reqs[r1].forwarded /\ reqs[r2].forwarded

\* C16's failing case: a service without backends answered upstream_peer
\* with the no-backend error.
C16_WitnessNoBackend ==
    \E r \in Reqs :
        /\ reqs[r].error = "Unable to determine backend" /\ reqs[r].pc = "done"

C17_WitnessSpread ==
    \E r1, r2 \in Reqs :
        /\ svc.selection \in {"Fnv", "Ketama"}
        /\ PeerReturned(reqs[r1]) /\ PeerReturned(reqs[r2])
        /\ reqs[r1].lbkey # reqs[r2].lbkey
        /\ reqs[r1].backend # 0 /\ reqs[r2].backend # 0
        /\ reqs[r1].backend # reqs[r2].backend

\* C18: with the round-robin balancer the key is ignored and the shared
\* counter advances by exactly one per selection: the k-th selection returns
\* backend ((k - 1) mod n) + 1, so any n consecutive selections return each of
\* the n backends once.
C18_RoundRobin ==
    (svc.ok /\ svc.selection = "RoundRobin" /\ Len(svc.backends) >= 1) =>
        LET n == Len(svc.backends) IN
        /\ lb.next = Len(lb.picks)
        /\ \A k \in 1..Len(lb.picks) : lb.picks[k] = ((k - 1) % n) + 1
        /\ \A k \in 1..Len(lb.picks) :
              k + n - 1 <= Len(lb.picks) =>
                  {lb.picks[j] : j \in k..(k + n - 1)} = 1..n

\* C18's case: two requests with the same key were selected one after the
\* other over two backends and were given one backend each.
C18_Witness ==
    /\ svc.selection = "RoundRobin" /\ Len(svc.backends) = 2
    /\ Len(lb.picks) = 2 /\ lb.picks[1] # lb.picks[2]
    /\ \A r \in Reqs : PeerReturned(reqs[r]) /\ reqs[r].lbkey = <<"/a">>
    /\ \E r1, r2 \in Reqs : reqs[r1].backend = 1 /\ reqs[r2].backend = 2

\* C19: whenever upstream_peer has returned, with a peer or with either
\* error, the selector buffer of the request's context is empty (as it is
\* before the call).
C19_BufferCleared ==
    \A r \in Reqs : reqs[r].selector_buf = <<>>

\* C19's case: the selector wrote the key into the buffer and upstream_peer
\* returned with a peer.
C19_Witness ==
    \E r \in Reqs :
        /\ svc.request_selector = "source_addr_and_uri_path_selector"
        /\ PeerReturned(reqs[r]) /\ Len(reqs[r].lbkey) >= 2
        /\ reqs[r].error = "-" /\ reqs[r].forwarded

\* C19's failing case: the buffer was written and the call failed.
C19_WitnessErr ==
    \E r \in Reqs :
        /\ svc.request_selector = "source_addr_and_uri_path_selector"
        /\ PeerReturned(reqs[r]) /\ Len(reqs[r].lbkey) >= 2
        /\ reqs[r].error = "Unable to determine backend"

\* The key the configured selector makes of a request, by the selector's
\* documentation: nothing, the path, or "<client address, debug form>:<path>".
ExpectedKey(selector, addr, path) ==
    IF selector = "null_selector" THEN <<>>
    ELSE IF selector = "uri_path_selector" THEN <<path>>
    ELSE (IF addr.sock = "none" THEN <<"None">>
          ELSE IF addr.sock = "unix" THEN <<"Some(Unix(", "))">>
          ELSE <<"Some(Inet(", addr.ip, "))">>) \o <<":", path>>

TimeoutChoices == {0, 1}

\* C27 as stated: the configured timeout_ms is not enforced, so a request that
\* is held in request_filter gets the same decision at this point from the
\* service as from one that differs from it only in timeout_ms.
C27_TimeoutNotEnforced ==
    \A r \in 1..Len(reqs) : \A t \in TimeoutChoices :
        (reqs[r].pc = "request_filter" /\ reqs[r].rf = "wait") =>
            (Elapsed(reqs[r], svc.rate_limiting_timeout)
                <=> Elapsed(reqs[r], rate_limiting_timeout(t)))

\* ======================================================================
\* The header and URI modifiers on their own (proxy/request_modifiers.rs,
\* proxy/response_modifiers.rs)
\* ======================================================================
MaxSteps == 2             \* modifiers applied to one header in a run

\* PathRewrite::from_settings: "regex" is taken and compiled (a regex that
\* does not compile aborts the process), then "rewrite" is taken. Left-over
\* keys are not looked at.
PathRewrite_from_settings(settings) ==
    LET regex == extract_val("regex", settings)
        rewrite == extract_val("rewrite", regex.rest) IN
    IF ~regex.ok THEN BuildErr
    ELSE IF regex.val = "bad" THEN [ok |-> FALSE, kind |-> "panic"]
    ELSE IF ~rewrite.ok THEN BuildErr
    ELSE [ok |-> TRUE, kind |-> "url-rewrite", regex |-> regex.val, rewrite |-> rewrite.val]

\* Regex::is_match on a URI path, for the patterns of the model.
RewriteMatch(regex, path) ==
    \/ regex = "^/a$" /\ path = "/a"
    \/ regex = "/a" /\ path \in {"/a", "/a/a"}

\* Regex::replace: the leftmost match is replaced, the rest of the text kept.
RegexReplace(regex, rewrite, path) ==
    IF ~RewriteMatch(regex, path) THEN path
    ELSE IF path = "/a/a" THEN rewrite \o "/a"
    ELSE rewrite

\* A rewrite that rebuilds the URI whether or not the path matches.
PathRewrite_apply_Always(m, uri) ==
    [path |-> IF RewriteMatch(m.regex, uri.path)
              THEN RegexReplace(m.regex, m.rewrite, uri.path) ELSE uri.path,
     query |-> ""]

\* PathRewrite::upstream_request_filter: when the path matches, the URI is
\* set to one built from the rewritten path alone (header.uri.path() is the
\* path without the query); otherwise nothing is touched.
PathRewrite_apply(m, uri) ==
    IF ~RewriteMatch(m.regex, uri.path) THEN uri
    ELSE [path |-> RegexReplace(m.regex, m.rewrite, uri.path), query |-> ""]

\* The headers, URIs and modifiers the modifiers are run on: a header with the
\* matching name first, one with a repeated name, one without a match, none.
HeaderInputs ==
    { <<>>,
      << <<"x-secret-token", "t0k3n">>, <<"accept", "*/*">>, <<"host", "h">> >>,
      << <<"accept", "*/*">>, <<"x-secret-token", "1">>, <<"x-secret-token", "2">>,
         <<"host", "h">>, <<"via", "p">> >>,
      << <<"accept", "*/*">>, <<"host", "h">> >> }

UriInputs == {[path |-> p, query |-> q] : p \in {"/a", "/b", "/a/a"}, q \in {"", "x=1"}}

UpsertInputs ==
    {UpsertHeader_from_settings([key |-> kv[1], value |-> kv[2]]) :
        kv \in {<<"x-proxy-friend", "river">>, <<"accept", "text/html">>, <<"bad name", "x">>}}

RemoveInputs ==
    {RemoveHeaderKeyRegex_from_settings([pattern |-> p]) : p \in {".*secret.*", "^(accept|via)$"}}

RewriteInputs ==
    {PathRewrite_from_settings([regex |-> rr[1], rewrite |-> rr[2]]) :
        rr \in {<<"^/a$", "/b">>, <<"/a", "/c">>}}

NoStep == [kind |-> "-"]

InitModifiers ==
    /\ msg \in {[side |-> "request", uri |-> u, header |-> h, steps |-> 0,
                 failed |-> FALSE, last |-> NoStep] : u \in UriInputs, h \in HeaderInputs}
          \cup {[side |-> "response", uri |-> [path |-> "-", query |-> ""], header |-> h,
                 steps |-> 0, failed |-> FALSE, last |-> NoStep] : h \in HeaderInputs}
    /\ loader = <<>> /\ files = <<>>
    /\ single = <<>>
    /\ svc = [ok |-> FALSE]
    /\ reqs = <<>>
    /\ pcache = <<>>
    /\ pbuckets = <<>>
    /\ lb = [next |-> 0, picks |-> <<>>]
    /\ now = 0
    /\ rcfg = RaterNew([tag |-> "SourceIp", pattern |-> {}], 1, 1, 1, 1)
    /\ cache = [k \in Keys |-> 0]
    /\ buckets = <<>>
    /\ wpc = [w \in Workers |-> "idle"]
    /\ wkey = [w \in Workers |-> NoKey]
    /\ wbucket = [w \in Workers |-> 0]
    /\ calls = 0
    /\ approved = [k \in Keys |-> 0]
    /\ created = [k \in Keys |-> 0]
    /\ firstBorn = [k \in Keys |-> -1]
    /\ evictions = 0
    /\ issued = {}
    /\ approvedOff = [k \in Keys |-> 0]
    /\ persisted = [k \in Keys |-> 0]
    /\ winStart = [k \in Keys |-> 0]
    /\ winCount = [k \in Keys |-> 0]

\* The record of one application: the modifier, and the message before it.
StepOf(m) == [kind |-> m.kind, m |-> m, header |-> msg.header, uri |-> msg.uri]

\* UpsertHeader::upstream_request_filter / upstream_response_filter on the
\* message: the request side returns the error of append_header, the response
\* side drops it.
ModUpsert(m) ==
    LET res == UpsertHeader_apply(m, msg.header) IN
    /\ msg.steps < MaxSteps /\ ~msg.failed
    /\ msg' = [msg EXCEPT !.header = IF msg.side = "request" THEN res.header
                                     ELSE ResponseModifier_apply(m, msg.header),
                          !.failed = msg.side = "request" /\ ~res.ok,
                          !.steps = @ + 1, !.last = StepOf(m)]
    /\ UNCHANGED <<rvars, pvars, single, loader, files>>

\* RemoveHeaderKeyRegex::upstream_request_filter / upstream_response_filter.
ModRemove(m) ==
    /\ msg.steps < MaxSteps /\ ~msg.failed
    /\ msg' = [msg EXCEPT !.header = IF msg.side = "request"
                                     THEN RequestModifier_apply(m, msg.header).header
                                     ELSE ResponseModifier_apply(m, msg.header),
                          !.steps = @ + 1, !.last = StepOf(m)]
    /\ UNCHANGED <<rvars, pvars, single, loader, files>>

\* PathRewrite::upstream_request_filter.
ModRewrite(m) ==
    /\ msg.steps < MaxSteps /\ ~msg.failed
    /\ msg.side = "request"
    /\ msg' = [msg EXCEPT !.uri = PathRewrite_apply(m, msg.uri),
                          !.steps = @ + 1, !.last = StepOf(m)]
    /\ UNCHANGED <<rvars, pvars, single, loader, files>>

NextModifiers ==
    \/ \E m \in UpsertInputs : ModUpsert(m)
    \/ \E m \in RemoveInputs : ModRemove(m)
    \/ \E m \in RewriteInputs : ModRewrite(m)

SpecModifiers == InitModifiers /\ [][NextModifiers]_vars

\* The names of the header other than `name` keep their values.
OthersKept(before, after, name) ==
    \A i \in 1..Len(before) :
        before[i][1] # name => HeaderEntry(after, before[i][1]) = HeaderEntry(before, before[i][1])

\* C21 as stated: after upsert-header{k, v} was applied to a request or a
\* response header, the header holds exactly one header named k, with value
\* v, and every other header as before.
C21_UpsertExactlyOne ==
    msg.last.kind = "upsert-header" =>
        /\ HeaderEntry(msg.header, msg.last.m.key) = << <<msg.last.m.key, msg.last.m.value>> >>
        /\ OthersKept(msg.last.header, msg.header, msg.last.m.key)

\* C22 as stated: after remove-header-key-regex{p} was applied no header
\* whose name matches p is left, and the headers whose names do not match are
\* there with their values in their relative order.
C22_RemoveKeepsOrder ==
    msg.last.kind = "remove-header-key-regex" =>
        LET Unmatched(h) == ~HeaderRegexMatch(msg.last.m.regex, h[1]) IN
        /\ \A i \in 1..Len(msg.header) : Unmatched(msg.header[i])
        /\ msg.header = SelectSeq(msg.last.header, Unmatched)

\* C23 as stated: after url-rewrite{r, t} was applied to a request whose path
\* matches r, the path is the regex replacement of the old path and the query
\* string is the old one.
C23_RewriteKeepsQuery ==
    (msg.last.kind = "url-rewrite" /\ RewriteMatch(msg.last.m.regex, msg.last.uri.path)) =>
        /\ msg.uri.path = RegexReplace(msg.last.m.regex, msg.last.m.rewrite, msg.last.uri.path)
        /\ msg.uri.query = msg.last.uri.query

\* C24: after url-rewrite{r, t} was applied to a request whose path does not
\* match r, the URI (path and query) and every header are as they were, and
\* the request goes on.
C24_NoMatchUnchanged ==
    (msg.last.kind = "url-rewrite" /\ ~RewriteMatch(msg.last.m.regex, msg.last.uri.path)) =>
        /\ msg.uri = msg.last.uri
        /\ msg.header = msg.last.header
        /\ ~msg.failed

\* C24's case: a rewrite whose regex does not match was applied to a request
\* with a query string and headers, after another modifier.
C24_Witness ==
    /\ msg.last.kind = "url-rewrite" /\ ~RewriteMatch(msg.last.m.regex, msg.last.uri.path)
    /\ msg.steps = 2 /\ msg.uri.query = "x=1" /\ msg.uri.path = "/b" /\ msg.header # <<>>

\* ======================================================================
\* Configuration loading (config/kdl/mod.rs, config/toml.rs, main.rs)
\* ======================================================================
MaxItems == 2             \* settings in one load-balance section

\* The settings of a load-balance section: its name, its argument and its
\* `key` argument ("-": not given).
LbItem(name, val, key) == [name |-> name, val |-> val, key |-> key]

LbItems ==
    { LbItem("selection", "RoundRobin", "-"), LbItem("selection", "Random", "UriPath"),
      LbItem("selection", "FNV", "-"), LbItem("selection", "FNV", "UriPath"),
      LbItem("selection", "Ketama", "SourceAddrAndUriPath"),
      LbItem("selection", "Ketama", "Other"), LbItem("selection", "Bogus", "-"),
      LbItem("health-check", "None", "-"), LbItem("discovery", "Static", "-"),
      LbItem("bogus", "-", "-") }

LbItemSeqs == UNION {[1..n -> LbItems] : n \in 0..MaxItems}

\* UpstreamOptions::default
UpstreamOptions_default == UpstreamOptions("RoundRobin", "null_selector")

\* The selection names extract_load_balance knows.
SelectionKindOf(val) ==
    IF val = "RoundRobin" THEN "RoundRobin" ELSE IF val = "Random" THEN "Random"
    ELSE IF val = "FNV" THEN "Fnv" ELSE IF val = "Ketama" THEN "Ketama" ELSE "-"

\* A loader that lets a hashing selection go without a key.
LoadBalanceItem_KeyOptional(acc, item) ==
    IF item.name = "selection"
    THEN LET sel == SelectionKindOf(item.val) IN
         IF sel = "-" THEN [acc EXCEPT !.ok = FALSE]
         ELSE IF sel \in {"RoundRobin", "Random"} \/ item.key = "-"
         THEN [acc EXCEPT !.selection = sel]
         ELSE IF item.key = "UriPath"
         THEN [acc EXCEPT !.selection = sel, !.selector = "uri_path_selector"]
         ELSE IF item.key = "SourceAddrAndUriPath"
         THEN [acc EXCEPT !.selection = sel,
                          !.selector = "source_addr_and_uri_path_selector"]
         ELSE [acc EXCEPT !.ok = FALSE]
    ELSE IF item.name \in {"health-check", "discovery"} THEN acc
    ELSE [acc EXCEPT !.ok = FALSE]

\* One turn of extract_load_balance's loop over the settings: a selection
\* sets `selection`, and for FNV and Ketama takes the selector from its `key`
\* argument (missing or unknown: an error); health-check and discovery have
\* one value each; any other setting is an error.
LoadBalanceItem(acc, item) ==
    IF item.name = "selection"
    THEN LET sel == SelectionKindOf(item.val) IN
         IF sel = "-" THEN [acc EXCEPT !.ok = FALSE]
         ELSE IF sel \in {"RoundRobin", "Random"} THEN [acc EXCEPT !.selection = sel]
         ELSE IF item.key = "UriPath"
         THEN [acc EXCEPT !.selection = sel, !.selector = "uri_path_selector"]
         ELSE IF item.key = "SourceAddrAndUriPath"
         THEN [acc EXCEPT !.selection = sel,
                          !.selector = "source_addr_and_uri_path_selector"]
         ELSE [acc EXCEPT !.ok = FALSE]
    ELSE IF item.name \in {"health-check", "discovery"} THEN acc
    ELSE [acc EXCEPT !.ok = FALSE]

\* extract_load_balance: the settings in order, the first error returned;
\* selection defaults to RoundRobin, the selector starts as the null selector.
RECURSIVE LoadBalanceLoop(_, _)
LoadBalanceLoop(items, acc) ==
    IF items = <<>> \/ ~acc.ok THEN acc
    ELSE LoadBalanceLoop(Tail(items), LoadBalanceItem(acc, Head(items)))

extract_load_balance(items) ==
    LET acc == LoadBalanceLoop(items, [ok |-> TRUE, selection |-> "-",
                                       selector |-> "null_selector"]) IN
    IF ~acc.ok THEN [ok |-> FALSE, options |-> UpstreamOptions_default]
    ELSE [ok |-> TRUE,
          options |-> UpstreamOptions(IF acc.selection = "-" THEN "RoundRobin"
                                      ELSE acc.selection, acc.selector)]

\* HttpPeer::new(address, tls, sni): the peer options start with ALPN H1.
HttpPeer_new(address, tls, sni) ==
    [address |-> address, tls |-> tls, sni |-> sni, alpn |-> "H1"]

\* A node of the `connectors` section: its name (the address) and its `proto`
\* and `tls-sni` arguments ("-": not given). A TOML connector has the
\* address and the SNI only.
ConnNode(addr, proto, tls_sni) == [addr |-> addr, proto |-> proto, tls_sni |-> tls_sni]

Addresses == {"127.0.0.1:9000", "127.0.0.1:9001"}

NodeA == ConnNode("127.0.0.1:9000", "-", "a")
NodeB == ConnNode("127.0.0.1:9001", "-", "b")

ConnNodes ==
    {ConnNode(a, p, t) :
        a \in {"127.0.0.1:9000", "not-an-address"},
        p \in {"-", "h1-only", "h2-only", "h1-or-h2", "h2-or-h1", "h3-only"},
        t \in {"-", "", "a"}}

\* Connectors of which some share an address.
SharedNodes ==
    { ConnNode("127.0.0.1:9000", "h2-only", "a"), ConnNode("127.0.0.1:9000", "-", "b"),
      ConnNode("127.0.0.1:9000", "-", "-"), NodeB }

\* The `proto` argument as an ALPN ("-": none given, "?": not a known one).
ProtoOf(proto) ==
    IF proto = "-" THEN "-" ELSE IF proto = "h1-only" THEN "H1"
    ELSE IF proto = "h2-only" THEN "H2"
    ELSE IF proto \in {"h1-or-h2", "h2-or-h1"} THEN "H2H1" ELSE "?"

NoPeer == [ok |-> FALSE]

\* extract_connector: the name must be a socket address and `proto` a known
\* one; without tls-sni only no proto or h1-only is accepted (a plain H1
\* peer); with tls-sni the peer uses TLS with that SNI, and H2H1 when no
\* proto is given.
extract_connector(node) ==
    LET proto == ProtoOf(node.proto) IN
    IF node.addr \notin Addresses THEN NoPeer
    ELSE IF proto = "?" THEN NoPeer
    ELSE IF node.tls_sni = "-"
    THEN IF proto \in {"-", "H1"}
         THEN [ok |-> TRUE, peer |-> HttpPeer_new(node.addr, FALSE, "")]
         ELSE NoPeer
    ELSE [ok |-> TRUE,
          peer |-> [HttpPeer_new(node.addr, TRUE, node.tls_sni) EXCEPT
                       !.alpn = IF proto = "-" THEN "H2H1" ELSE proto]]

\* From<ConnectorConfig> for HttpPeer: TLS with the SNI when one is given.
HttpPeer_from_toml(node) ==
    IF node.tls_sni = "-" THEN HttpPeer_new(node.addr, FALSE, "")
    ELSE HttpPeer_new(node.addr, TRUE, node.tls_sni)

\* The connectors of a `connectors` section, in order; the first error ends
\* the load.
RECURSIVE ExtractConnectors(_, _)
ExtractConnectors(nodes, acc) ==
    IF nodes = <<>> THEN [ok |-> TRUE, peers |-> acc]
    ELSE LET c == extract_connector(Head(nodes)) IN
         IF ~c.ok THEN [ok |-> FALSE, peers |-> <<>>]
         ELSE ExtractConnectors(Tail(nodes), Append(acc, c.peer))

\* The modifier settings a document may carry: for each kind its own keys, a
\* key too many, a key missing; an unknown kind.
ModSettings ==
    { CidrSettings,
      [kind |-> "block-cidr-range", addrs |-> <<"10.0.0.0/8">>, extra |-> "x"],
      [kind |-> "block-cidr-range"],
      RemoveSecretSettings,
      [kind |-> "remove-header-key-regex", pattern |-> ".*secret.*", extra |-> "x"],
      [kind |-> "remove-header-key-regex"],
      UpsertFriendSettings,
      [kind |-> "upsert-header", key |-> "x-proxy-friend", value |-> "river", extra |-> "x"],
      [kind |-> "upsert-header", key |-> "x-proxy-friend"],
      RewriteSettings,
      [kind |-> "url-rewrite", regex |-> "^/a$", rewrite |-> "/b", extra |-> "x"],
      [kind |-> "url-rewrite", regex |-> "^/a$"],
      [kind |-> "bogus-kind"] }

Sides == {"request_filters", "upstream_request_filters", "upstream_response_filters"}

\* The path control with the one modifier `settings` in the list `side`.
PathControlWith(side, settings) ==
    PathControl(IF side = "request_filters" THEN <<settings>> ELSE <<>>,
                IF side = "upstream_request_filters" THEN <<settings>> ELSE <<>>,
                IF side = "upstream_response_filters" THEN <<settings>> ELSE <<>>)

ListenerSets == {<<>>, <<"tcp">>, <<"tcp-tls", "uds">>}

\* A service section of a configuration file.
Doc(source, listeners, connectors, has_lb, items, side, settings) ==
    [source |-> source, listeners |-> listeners, connectors |-> connectors,
     has_lb |-> has_lb, items |-> items, side |-> side, settings |-> settings]

\* The documents loaded: KDL sections that differ in their load-balance
\* settings, sections of both formats that differ in their listeners and
\* connectors, sections of both formats with one modifier, sections with one
\* connector of every form, and sections whose connectors share addresses.
Docs ==
    {Doc("kdl", <<"tcp">>, <<NodeA, NodeB>>, TRUE, items, "-", <<>>) : items \in LbItemSeqs}
    \cup {Doc("kdl", l, c, FALSE, <<>>, "-", <<>>) :
             l \in ListenerSets, c \in {<<>>, <<NodeA>>}}
    \cup {Doc("toml", l, <<NodeA>>, FALSE, <<>>, "-", <<>>) : l \in ListenerSets}
    \cup {Doc("kdl", <<"tcp">>, <<NodeA>>, FALSE, <<>>, side, st) :
             side \in Sides, st \in ModSettings}
    \cup {Doc("toml", <<"tcp">>, <<NodeA>>, FALSE, <<>>, side, st) :
             side \in Sides \ {"request_filters"}, st \in ModSettings}
    \cup {Doc("kdl", <<"tcp">>, <<n>>, FALSE, <<>>, "-", <<>>) : n \in ConnNodes}
    \cup {Doc("toml", <<"tcp">>, <<ConnNode("127.0.0.1:9000", "-", t)>>, FALSE, <<>>, "-", <<>>) :
             t \in {"-", "", "a"}}
    \cup {Doc("kdl", <<"tcp">>, <<n1, n2>>, FALSE, <<>>, "-", <<>>) :
             n1 \in SharedNodes, n2 \in SharedNodes}

\* The path control a document asks for.
DocPathControl(doc) ==
    IF doc.side = "-" THEN PathControl(<<>>, <<>>, <<>>)
    ELSE PathControlWith(doc.side, doc.settings)

NoConf == [ok |-> FALSE]

\* extract_service (KDL): the listeners must not be empty; the connectors
\* section gives the load-balance options (the defaults without one) and
\* must hold a connector; then the path control.
extract_service(doc) ==
    LET balance == IF doc.has_lb THEN extract_load_balance(doc.items)
                   ELSE [ok |-> TRUE, options |-> UpstreamOptions_default]
        conns == ExtractConnectors(doc.connectors, <<>>) IN
    IF doc.listeners = <<>> THEN NoConf
    ELSE IF ~balance.ok THEN NoConf
    ELSE IF ~conns.ok THEN NoConf
    ELSE IF conns.peers = <<>> THEN NoConf
    ELSE [ok |-> TRUE, listeners |-> doc.listeners,
          conf |-> ProxyConf(DocPathControl(doc), <<>>, 0, balance.options, conns.peers)]

\* From<toml::ProxyConfig>: the listeners as they are (an absent list is the
\* empty one), the one connector, the default load-balance options.
ProxyConfig_from_toml(doc) ==
    [ok |-> TRUE, listeners |-> doc.listeners,
     conf |-> ProxyConf(DocPathControl(doc), <<>>, 0, UpstreamOptions_default,
                        <<HttpPeer_from_toml(doc.connectors[1])>>)]

\* populate_listners: each configured listener is added to the service.
populate_listners(listeners) ==
    [i \in 1..Len(listeners) |->
        IF listeners[i] = "tcp-tls" THEN "add_tls"
        ELSE IF listeners[i] = "tcp" THEN "add_tcp" ELSE "add_uds"]

InitConfig ==
    /\ loader \in {[doc |-> d, pc |-> "render", rendered |-> NoConf, result |-> "-",
                    service |-> [ok |-> FALSE], listening |-> <<>>] : d \in Docs}
    /\ msg = <<>> /\ files = <<>>
    /\ single = <<>>
    /\ svc = [ok |-> FALSE]
    /\ reqs = <<>>
    /\ pcache = <<>>
    /\ pbuckets = <<>>
    /\ lb = [next |-> 0, picks |-> <<>>]
    /\ now = 0
    /\ rcfg = RaterNew([tag |-> "SourceIp", pattern |-> {}], 1, 1, 1, 1)
    /\ cache = [k \in Keys |-> 0]
    /\ buckets = <<>>
    /\ wpc = [w \in Workers |-> "idle"]
    /\ wkey = [w \in Workers |-> NoKey]
    /\ wbucket = [w \in Workers |-> 0]
    /\ calls = 0
    /\ approved = [k \in Keys |-> 0]
    /\ created = [k \in Keys |-> 0]
    /\ firstBorn = [k \in Keys |-> -1]
    /\ evictions = 0
    /\ issued = {}
    /\ approvedOff = [k \in Keys |-> 0]
    /\ persisted = [k \in Keys |-> 0]
    /\ winStart = [k \in Keys |-> 0]
    /\ winCount = [k \in Keys |-> 0]

\* render_config with a KDL file: an error from extract_service ends the
\* process before anything is built.
RenderKdl ==
    LET c == extract_service(loader.doc) IN
    /\ loader.pc = "render" /\ loader.doc.source = "kdl"
    /\ loader' = [loader EXCEPT !.rendered = c,
                                !.pc = IF c.ok THEN "build" ELSE "done",
                                !.result = IF c.ok THEN "-" ELSE "Err"]
    /\ UNCHANGED <<rvars, pvars, single, msg, files>>

\* render_config with a TOML file: apply_toml converts each proxy.
ApplyToml ==
    /\ loader.pc = "render" /\ loader.doc.source = "toml"
    /\ loader' = [loader EXCEPT !.rendered = ProxyConfig_from_toml(loader.doc),
                                !.pc = "build"]
    /\ UNCHANGED <<rvars, pvars, single, msg, files>>

\* main: river_proxy_service(conf) builds the service (from_basic_conf, which
\* unwraps the modifiers and so aborts when they do not build) and adds its
\* listeners.
BuildService ==
    LET s == from_basic_conf(loader.rendered.conf) IN
    /\ loader.pc = "build"
    /\ loader' = [loader EXCEPT
                     !.pc = "done",
                     !.result = IF s.ok THEN "built" ELSE "panic",
                     !.service = IF s.ok THEN s ELSE [ok |-> FALSE],
                     !.listening = IF s.ok THEN populate_listners(loader.rendered.listeners)
                                   ELSE <<>>]
    /\ UNCHANGED <<rvars, pvars, single, msg, files>>

NextConfig == RenderKdl \/ ApplyToml \/ BuildService

SpecConfig == InitConfig /\ [][NextConfig]_vars

\* The keys of a kind besides `kind`, and the lists a kind belongs to, as
\* the configuration format documents them.
OwnKeys(kind) ==
    IF kind = "block-cidr-range" THEN {"addrs"}
    ELSE IF kind = "remove-header-key-regex" THEN {"pattern"}
    ELSE IF kind = "upsert-header" THEN {"key", "value"}
    ELSE IF kind = "url-rewrite" THEN {"regex", "rewrite"}
    ELSE {}

ClosedSet ==
    { <<"request_filters", "block-cidr-range">>,
      <<"upstream_request_filters", "remove-header-key-regex">>,
      <<"upstream_request_filters", "upsert-header">>,
      <<"upstream_request_filters", "url-rewrite">>,
      <<"upstream_response_filters", "remove-header-key-regex">>,
      <<"upstream_response_filters", "upsert-header">> }

\* The document's modifier has exactly the keys of its kind.
ExactKeys(doc) == DOMAIN doc.settings = OwnKeys(doc.settings.kind) \cup {"kind"}

\* The load of the document is over.
Loaded == loader.pc = "done"

\* C25 as stated: a modifier with the keys of its kind is built, and the
\* service with it, exactly when its kind belongs to the closed set of its
\* list; for any other kind in any list the load fails and no service is
\* constructed.
C25_ClosedKinds ==
    (Loaded /\ loader.doc.side # "-" /\ ExactKeys(loader.doc)) =>
        (loader.result = "built" <=> <<loader.doc.side, loader.doc.settings.kind>> \in ClosedSet)

\* C26 as stated: a modifier of one of the four kinds whose settings, once
\* `kind` is removed, hold a key other than the kind's own, or lack one of
\* them, is not built: the load fails.
C26_ExactKeysOnly ==
    (Loaded /\ loader.doc.side # "-" /\ OwnKeys(loader.doc.settings.kind) # {}
       /\ ~ExactKeys(loader.doc))
    => loader.result # "built"

\* C29: the load-balance options a loaded configuration carries never pair
\* the FNV or the Ketama selection with the null selector, whatever the
\* sequence of settings; and a section with an FNV or Ketama selection
\* without a (known) key is rejected.
C29_HashNeedsSelector ==
    /\ loader.rendered.ok =>
          LET o == loader.rendered.conf.upstream_options IN
          /\ o.selection \in {"Fnv", "Ketama"} => o.selector # "null_selector"
          /\ \A i \in 1..Len(loader.doc.items) :
                LET item == loader.doc.items[i] IN
                (item.name = "selection" /\ item.val \in {"FNV", "Ketama"}) =>
                    item.key \in {"UriPath", "SourceAddrAndUriPath"}
    /\ loader.result = "built" =>
          (loader.service.selection \in {"Fnv", "Ketama"}
              => loader.service.request_selector # "null_selector")

\* C29's case: a section with two selection entries, the first without a key
\* and the last a hashing one, was loaded and its service built.
C29_Witness ==
    /\ loader.result = "built" /\ Len(loader.doc.items) = 2
    /\ loader.doc.items[1] = LbItem("selection", "RoundRobin", "-")
    /\ loader.doc.items[2].name = "selection"
    /\ loader.service.selection = "Fnv"
    /\ loader.service.request_selector = "uri_path_selector"

\* C29's rejecting case: a hashing selection without a key ended the load.
C29_WitnessRejected ==
    /\ loader.result = "Err"
    /\ \E i \in 1..Len(loader.doc.items) :
          loader.doc.items[i] = LbItem("selection", "FNV", "-")

\* C30 as stated: every proxy service that was constructed has at least one
\* listener, whichever format its configuration came from.
C30_ListenersNonEmpty ==
    loader.result = "built" => Len(loader.listening) >= 1

\* ======================================================================
\* The file server (files.rs)
\* ======================================================================
MaxFileRequests == 2      \* requests a file server receives in a run

\* What the static-files handler can hand back to FileServer::request_filter:
\* one of the three RequestFilterResult values, or an error.
HandlerResults == {"ResponseSent", "Handled", "Unhandled", "Err"}

FilePaths == {"/index.html", "/missing", "/../secret"}

\* A file server whose request_filter lets a request go on when the handler
\* sent no response.
FileServer_request_filter_Continue(handled) ==
    IF handled = "ResponseSent" THEN "Ok(true)"
    ELSE IF handled = "Err" THEN "Err" ELSE "Ok(false)"

\* FileServer::request_filter: the handler's error is returned by `?`;
\* ResponseSent gives Ok(true); any other result gives the error
\* "Request Failed".
FileServer_request_filter(handled) ==
    IF handled = "Err" THEN "Err"
    ELSE IF handled = "ResponseSent" THEN "Ok(true)" ELSE "Err"

\* FileServer::upstream_peer: always the error "Request Failed".
FileServer_upstream_peer == "Err"

NewFileReq ==
    [pc |-> "new", path |-> "-", handled |-> "-", rfResult |-> "-", peer |-> "-",
     phases |-> <<>>]

InitFiles ==
    /\ files = [r \in 1..MaxFileRequests |-> NewFileReq]
    /\ msg = <<>> /\ loader = <<>>
    /\ single = <<>>
    /\ svc = [ok |-> FALSE]
    /\ reqs = <<>>
    /\ pcache = <<>>
    /\ pbuckets = <<>>
    /\ lb = [next |-> 0, picks |-> <<>>]
    /\ now = 0
    /\ rcfg = RaterNew([tag |-> "SourceIp", pattern |-> {}], 1, 1, 1, 1)
    /\ cache = [k \in Keys |-> 0]
    /\ buckets = <<>>
    /\ wpc = [w \in Workers |-> "idle"]
    /\ wkey = [w \in Workers |-> NoKey]
    /\ wbucket = [w \in Workers |-> 0]
    /\ calls = 0
    /\ approved = [k \in Keys |-> 0]
    /\ created = [k \in Keys |-> 0]
    /\ firstBorn = [k \in Keys |-> -1]
    /\ evictions = 0
    /\ issued = {}
    /\ approvedOff = [k \in Keys |-> 0]
    /\ persisted = [k \in Keys |-> 0]
    /\ winStart = [k \in Keys |-> 0]
    /\ winCount = [k \in Keys |-> 0]

\* A request arrives; new_ctx makes the (empty) context.
FS_Accept(r) ==
    /\ files[r].pc = "new"
    /\ \E p \in FilePaths :
          files' = [files EXCEPT ![r] = [@ EXCEPT !.pc = "request_filter", !.path = p]]
    /\ UNCHANGED <<rvars, pvars, single, msg, loader>>

\* The proxy engine calls request_filter; what it returns decides the next
\* phase: Ok(true) ends the request, an error fails it, Ok(false) goes on to
\* upstream_peer.
FS_RequestFilter(r) ==
    /\ files[r].pc = "request_filter"
    /\ \E h \in HandlerResults :
          LET res == FileServer_request_filter(h) IN
          files' = [files EXCEPT ![r] =
                      [@ EXCEPT !.handled = h, !.rfResult = res,
                                !.phases = Append(@, "request_filter"),
                                !.pc = IF res = "Ok(true)" THEN "responded"
                                       ELSE IF res = "Err" THEN "failed"
                                       ELSE "upstream_peer"]]
    /\ UNCHANGED <<rvars, pvars, single, msg, loader>>

\* The engine's next step for the request: upstream_peer for a request that
\* goes on, the end of the request otherwise.
FS_Proceed(r) ==
    /\ files[r].pc \in {"responded", "failed", "upstream_peer"}
    /\ files' = [files EXCEPT ![r] =
                   IF @.pc = "upstream_peer"
                   THEN [@ EXCEPT !.peer = FileServer_upstream_peer,
                                  !.phases = Append(@, "upstream_peer"), !.pc = "done"]
                   ELSE [@ EXCEPT !.pc = "done"]]
    /\ UNCHANGED <<rvars, pvars, single, msg, loader>>

NextFiles ==
    \E r \in 1..MaxFileRequests : FS_Accept(r) \/ FS_RequestFilter(r) \/ FS_Proceed(r)

SpecFiles == InitFiles /\ [][NextFiles]_vars

\* request_filter has returned for the request.
Filtered(f) == f.rfResult # "-"

\* C28: a file server's request_filter never returns Ok(false): it returns
\* Ok(true) when the handler reports ResponseSent and an error for any other
\* handler result, so no request reaches upstream_peer; and upstream_peer
\* itself returns an error.
C28_FileServerNeverContinues ==
    /\ \A r \in 1..Len(files) :
          LET f == files[r] IN
          /\ f.rfResult # "Ok(false)"
          /\ Filtered(f) => (f.rfResult = "Ok(true)" <=> f.handled = "ResponseSent")
          /\ Filtered(f) => (f.rfResult = "Err" <=> f.handled # "ResponseSent")
          /\ f.pc # "upstream_peer" /\ f.peer = "-"
          /\ \A i \in 1..Len(f.phases) : f.phases[i] # "upstream_peer"
    /\ FileServer_upstream_peer = "Err"

\* C28's case: one request was answered by the handler and one got a handler
\* result other than ResponseSent; both are over.
C28_Witness ==
    \E r1, r2 \in 1..Len(files) :
        /\ files[r1].pc = "done" /\ files[r1].handled = "ResponseSent"
        /\ files[r1].rfResult = "Ok(true)"
        /\ files[r2].pc = "done" /\ files[r2].handled = "Unhandled"
        /\ files[r2].rfResult = "Err"

\* ======================================================================
\* Upstream peers and backends of a loaded configuration
\* ======================================================================
\* C31 as stated: every upstream peer of a loaded configuration with ALPN H2
\* or H2H1 uses TLS with a non-empty SNI, and a connector that asks for
\* h2-only or h2-or-h1 without a usable tls-sni is rejected.
C31_AlpnNeedsSni ==
    loader.rendered.ok =>
        /\ \A i \in 1..Len(loader.rendered.conf.upstreams) :
              LET peer == loader.rendered.conf.upstreams[i] IN
              peer.alpn \in {"H2", "H2H1"} => (peer.tls /\ peer.sni # "")
        /\ \A i \in 1..Len(loader.doc.connectors) :
              LET node == loader.doc.connectors[i] IN
              (loader.doc.source = "kdl" /\ ProtoOf(node.proto) \in {"H2", "H2H1"})
                  => node.tls_sni \notin {"-", ""}

\* The first of the upstreams with the address.
FirstWithAddress(upstreams, address) ==
    upstreams[CHOOSE j \in 1..Len(upstreams) :
                 /\ upstreams[j].address = address
                 /\ \A k \in 1..(j - 1) : upstreams[k].address # address]

\* C40: the backend set of a built service holds exactly one backend per
\* distinct upstream address, each with peer metadata, so that upstream_peer
\* does not fail for want of it; the peer of a backend is the first upstream
\* configured with its address, a later one with the same address is unused.
C40_OneBackendPerAddress ==
    loader.result = "built" =>
        LET b == loader.service.backends
            u == loader.rendered.conf.upstreams IN
        /\ {b[i].address : i \in 1..Len(b)} = {u[j].address : j \in 1..Len(u)}
        /\ \A i, k \in 1..Len(b) : b[i].address = b[k].address => i = k
        /\ \A i \in 1..Len(b) :
              /\ b[i].ext.has_peer
              /\ BackendPeer(b, i).ok
              /\ BackendPeer(b, i).error # "Fatal: Missing selected backend metadata"
              /\ b[i].ext.peer = FirstWithAddress(u, b[i].address)

\* C40's case: two connectors with one address and different SNI and ALPN
\* were loaded; the service has the one backend, with the first one's peer.
C40_Witness ==
    /\ loader.result = "built"
    /\ Len(loader.rendered.conf.upstreams) = 2
    /\ loader.rendered.conf.upstreams[1].address = loader.rendered.conf.upstreams[2].address
    /\ loader.rendered.conf.upstreams[1].sni = "a"
    /\ loader.rendered.conf.upstreams[1].alpn = "H2"
    /\ loader.rendered.conf.upstreams[2].sni = "b"
    /\ Len(loader.service.backends) = 1
    /\ loader.service.backends[1].ext.peer.sni = "a"

\* ======================================================================
\* Errors and rejections in the pipeline
\* ======================================================================
\* Modifier i of the service's upstream request list returns an error.
RequestModifierFails(i) ==
    ~RequestModifier_apply(svc.modifiers.upstream_request_filters[i], <<>>).ok

\* Filter i of the service's request filters completes the request q.
RequestFilterCompletes(i, q) ==
    CidrRangeFilter_request_filter(svc.modifiers.request_filters[i], q.addr).result
        = "Ok(true)"

\* C32: when modifier i of request_filter's list completes the request, or
\* modifier i of upstream_request_filter's list returns an error, no modifier
\* after i of that list is applied to the request, and the phase hands that
\* result to the engine: Ok(true), which ends the request answered, or the
\* error, which ends it before it is forwarded.
C32_StopAtFirstFailure ==
    \A r \in Reqs :
        LET q == reqs[r]
            rf == PhaseLog(q, "request_filter")
            urf == PhaseLog(q, "upstream_request_filter") IN
        /\ \A k \in 1..Len(rf) :
              RequestFilterCompletes(rf[k][2], q) =>
                  /\ k = Len(rf)
                  /\ q.rfResult = "Ok(true)" /\ q.pc = "done"
                  /\ q.phases = <<"request_filter">>
        /\ \A k \in 1..Len(urf) :
              RequestModifierFails(urf[k][2]) =>
                  /\ k = Len(urf)
                  /\ q.pc = "done" /\ ~q.forwarded
                  /\ q.phases[Len(q.phases)] = "upstream_request_filter"

\* C32's case: of two requests one was completed by the first of two request
\* filters, the other stopped at the first of two request modifiers.
C32_Witness ==
    \E r1, r2 \in Reqs :
        /\ Len(svc.modifiers.request_filters) = 2
        /\ Len(svc.modifiers.upstream_request_filters) = 2
        /\ PhaseLog(reqs[r1], "request_filter") = << <<"request_filter", 1>> >>
        /\ reqs[r1].rfResult = "Ok(true)" /\ reqs[r1].pc = "done"
        /\ PhaseLog(reqs[r2], "request_filter")
              = << <<"request_filter", 1>>, <<"request_filter", 2>> >>
        /\ PhaseLog(reqs[r2], "upstream_request_filter")
              = << <<"upstream_request_filter", 1>> >>
        /\ reqs[r2].pc = "done" /\ ~reqs[r2].forwarded

RulesThatApply(q) ==
    {i \in 1..Len(svc.request_filter_stage) :
        RaterInstance_get_key(svc.request_filter_stage[i].kind, q.addr, q.path)
            \notin {NoKey, PanicKey}}

\* The tickets that go from waiting to granted in a step.
GrantedInStep ==
    {<<r, i>> \in Reqs \X (1..Len(svc.request_filter_stage)) :
        /\ i <= Len(reqs[r].tickets) /\ i <= Len(reqs'[r].tickets)
        /\ reqs[r].tickets[i].state = "pending"
        /\ reqs'[r].tickets[i].state = "granted"}

\* C34: a request holds at most one ticket per rule, each for the bucket of
\* its key under that rule; a request that passed the rate-limit stage was
\* granted the ticket of every rule that applies to it and holds no other; a
\* token leaves a bucket only when one waiting ticket for that bucket is
\* granted, one token at a time, and a granted ticket is never used again.
C34_OneTokenPerRule ==
    /\ [](\A r \in Reqs :
            LET q == reqs[r] IN
            /\ \A i, j \in 1..Len(q.tickets) : q.tickets[i].rule = q.tickets[j].rule => i = j
            /\ \A i \in 1..Len(q.tickets) :
                  /\ q.tickets[i].rule \in RulesThatApply(q)
                  /\ pbuckets[q.tickets[i].bucket].rule = q.tickets[i].rule
            /\ q.rl = "admitted" =>
                  /\ {q.tickets[i].rule : i \in 1..Len(q.tickets)} = RulesThatApply(q)
                  /\ \A i \in 1..Len(q.tickets) : q.tickets[i].state = "granted")
    /\ [][/\ \A b \in 1..Len(pbuckets) :
                pbuckets'[b].tokens < pbuckets[b].tokens =>
                   /\ pbuckets'[b].tokens = pbuckets[b].tokens - 1
                   /\ \E g \in GrantedInStep : reqs[g[1]].tickets[g[2]].bucket = b
          /\ \A g \in GrantedInStep :
                /\ GrantedInStep = {g}
                /\ pbuckets'[reqs[g[1]].tickets[g[2]].bucket].tokens
                      = pbuckets[reqs[g[1]].tickets[g[2]].bucket].tokens - 1
                /\ \A b \in 1..Len(pbuckets) :
                      b # reqs[g[1]].tickets[g[2]].bucket => pbuckets'[b] = pbuckets[b]
          /\ \A r \in Reqs : \A i \in 1..Len(reqs[r].tickets) :
                reqs[r].tickets[i].state = "granted" =>
                   /\ i <= Len(reqs'[r].tickets)
                   /\ reqs'[r].tickets[i] = reqs[r].tickets[i]
       ]_vars

\* C34's case: a request passed the rate-limit stage with two tickets, one
\* per rule, while another request of the same client holds a ticket for the
\* same source-ip bucket.
C34_Witness ==
    \E r1, r2 \in Reqs :
        /\ r1 # r2
        /\ reqs[r1].rl = "admitted" /\ Len(reqs[r1].tickets) = 2
        /\ reqs[r1].tickets[1].rule # reqs[r1].tickets[2].rule
        /\ Len(reqs[r2].tickets) >= 1
        /\ reqs[r2].tickets[1].bucket = reqs[r1].tickets[1].bucket

\* C35 as stated: when a rule does not apply to a request (a source-ip rule
\* and a client that has no IP address, known or not; a uri rule whose pattern
\* does not match) the limiter hands out no ticket and makes no bucket, and
\* the request is neither rejected nor aborted by it.
C35_NoneIsHarmless ==
    /\ \A r \in Reqs :
          LET q == reqs[r] IN
          \A i \in 1..Len(svc.request_filter_stage) :
              (q.rl # "-" /\ get_key(svc.request_filter_stage[i].kind, q.addr, q.path) = NoKey)
              => /\ \A k \in 1..Len(q.tickets) : q.tickets[k].rule # i
                 /\ q.rl # "panic" /\ q.rfResult # "panic"
    /\ \A b \in 1..Len(pbuckets) :
          \E r \in Reqs : \E k \in 1..Len(reqs[r].tickets) :
              reqs[r].tickets[k].bucket = b /\ pbuckets[b].rule = reqs[r].tickets[k].rule

\* C36 as stated: applying a modifier that was built from its settings never
\* fails: whatever the header and the URI, on the request and on the response
\* side, the call returns without an error.
C36_ApplyNeverFails ==
    msg.last.kind \in {"upsert-header", "remove-header-key-regex", "url-rewrite"}
        => ~msg.failed

\* ======================================================================
\* The buckets of both limiter shapes
\* ======================================================================
\* A run of a Multi limiter or of a Single limiter.
InitLimiters == InitRater \/ InitSingle

NextLimiters ==
    \/ single = <<>> /\ NextRater
    \/ single # <<>> /\ NextSingle

SpecLimiters == InitLimiters /\ [][NextLimiters]_vars

\* What a bucket that holds `tokens` gains in a refill, with the refill
\* quantity clamped to the size of the bucket.
ClampedGain(cfg, tokens) ==
    Min(cfg.max_tokens_per_bucket - tokens,
        Min(cfg.refill_qty, cfg.max_tokens_per_bucket))

\* The step keeps bucket i of `old` within a clamped refill.
WithinRefill(cfg, old, new, i) ==
    new[i].tokens > old[i].tokens =>
        new[i].tokens - old[i].tokens = ClampedGain(cfg, old[i].tokens)

C37_WitnessSingle ==
    /\ single # <<>>
    /\ single.config.refill_qty > single.config.max_tokens_per_bucket
    /\ single.approved >= single.config.max_tokens_per_bucket
    /\ now >= RefillIntervalTicks
    /\ single.limiters[1].tokens = single.config.max_tokens_per_bucket

\* ======================================================================
\* The non-blocking attempt of a ticket
\* ======================================================================
\* The refills of a bucket born at `born` that fall in the window (from, to].
RefillsBetween(born, from, to) ==
    ((to - born) \div RefillIntervalTicks) - ((from - born) \div RefillIntervalTicks)

\* C38: now_or_never is Approved, and takes exactly one token, whenever the
\* ticket's bucket holds a token, and is Declined, taking nothing, only when
\* the bucket is empty; no other bucket changes (a bucket that nothing refers
\* to any more is gone). So for a key with one bucket
\* the approvals since the last one that found the bucket full, with what is
\* left in the bucket, make up the whole allowance M + (refills)*R of that
\* window: under demand that empties the bucket the approvals reach it.
C38_DeclinedOnlyWhenEmpty ==
    /\ [][\A w \in Workers :
             (wpc[w] = "ticket" /\ wpc'[w] = "idle") =>
                LET b == wbucket[w]
                    key == wkey[w] IN
                /\ IF buckets[b].tokens >= 1
                   THEN /\ approved'[key] = approved[key] + 1
                        /\ buckets'[b].live => buckets'[b].tokens = buckets[b].tokens - 1
                   ELSE /\ approved' = approved
                        /\ buckets'[b].tokens = 0
                /\ \A i \in 1..Len(buckets) : i # b => buckets'[i] = buckets[i]
         ]_vars
    /\ [](\A k \in Keys :
            (created[k] = 1 /\ evictions = 0 /\ winCount[k] > 0
               /\ buckets[cache[k]].tokens < rcfg.max_tokens_per_bucket) =>
                winCount[k] + buckets[cache[k]].tokens
                   = rcfg.max_tokens_per_bucket
                     + RefillsBetween(firstBorn[k], winStart[k], now) * rcfg.refill_qty)

\* C38's case: a key was approved as often as its allowance over a window
\* with a refill, and a further attempt on the empty bucket was declined.
C38_Witness ==
    \E k \in Keys :
        /\ created[k] = 1 /\ evictions = 0
        /\ now >= RefillIntervalTicks
        /\ approved[k] >= 2
        /\ approved[k] = Allowance(rcfg, now - firstBorn[k])
        /\ buckets[cache[k]].tokens = 0
        /\ calls > approved[k]

\* ======================================================================
\* Termination of request_filter
\* ======================================================================
\* The timeout of a waiting request is due.
Overdue(q) ==
    q.pc = "request_filter" /\ q.rf = "wait" /\ Elapsed(q, svc.rate_limiting_timeout)

\* The clock of a running service: the timer of tokio::time::timeout fires at
\* its deadline, so time does not go on while a timeout is due.
ServiceTickDue ==
    /\ \A r \in Reqs : ~Overdue(reqs[r])
    /\ ServiceTick

NextLive ==
    \/ \E r \in Reqs, ses \in Sessions : Arrive(r, ses[1], ses[2])
    \/ \E r \in Reqs : RF_GetTickets(r)
    \/ \E r \in Reqs : \E i \in 1..Len(reqs[r].tickets) : TicketWait(r, i)
    \/ \E r \in Reqs : RF_RateDone(r)
    \/ \E r \in Reqs : RF_RateTimeout(r)
    \/ \E r \in Reqs : RF_Respond429(r)
    \/ \E r \in Reqs : RF_Filter(r)
    \/ \E r \in Reqs : RF_Continue(r)
    \/ \E r \in Reqs : UpstreamPeer(r)
    \/ \E r \in Reqs : UpstreamRequestFilter(r)
    \/ \E r \in Reqs : Forward(r)
    \/ \E r \in Reqs : UpstreamResponseFilter(r)
    \/ ServiceTickDue

\* The runtime keeps running the tasks that can run, and time passes.
SpecLive == Init /\ [][NextLive]_vars /\ WF_vars(NextLive)

\* The deadline of the request's wait falls within the time of the run.
DeadlineInRun(q) == q.rlStart + svc.rate_limiting_timeout <= MaxTime

====
